---- MODULE Spec2Model ----
(***************************************************************************)
(* Routing-and-trust pipeline of my-agent: ModelRouter.route_request and   *)
(* ModelRouter.route_request_stream (core/router.py) with their            *)
(* collaborators IntentClassifier (core/intent_classifier.py),             *)
(* SecurityValidator and PIIRedactor (core/security.py), AdapterFactory    *)
(* (core/factory.py), the model adapters (core/adapters_local.py,          *)
(* core/adapters_remote.py) and MemorySystem.save_chat_turn                *)
(* (core/memory.py).  One request is in flight at a time; every await of   *)
(* the handler is one step.                                                *)
(***************************************************************************)
EXTENDS Integers, Sequences, FiniteSets, TLC

\* ------------------------------------------------------------------ bounds
\* Longest reply of the classification delegate, counted in category names.
MaxReplyLen == 2

\* Largest `tries` argument given to the retry decorator.
MaxTries == 3

\* Most adapter instances one AdapterFactory constructs.
MaxInstances == 3

\* Most save_chat_turn calls made on one MemorySystem.
MaxTurns == 3

\* Largest limit given to get_context.
MaxLimit == 2

\* Last hour of the clock a vault is observed at.
MaxClock == 8

\* --------------------------------------------------------------- universe
\* core/schema.py: the Intent enumeration, in declaration order.
IntentOrder ==
  <<"speed", "quality", "private", "nsfw", "coding", "finance", "create_agent">>

Intents == {IntentOrder[i] : i \in 1..Len(IntentOrder)}

\* core/factory.py: the providers initialize_remotes knows.
Providers == {"anthropic", "mistral", "moonshot"}

\* Adapters are identified by kind and pool key.  kind "ollama" is an
\* OllamaAdapter of AdapterFactory._local_pool, kind "remote" an adapter of
\* AdapterFactory._remote_instances, kind "client" a ModelAdapter of another
\* class handed to the router as local_client, kind "none" is Python's None.
NoAdapter == [kind |-> "none", name |-> ""]

OllamaAdapter(model_name) == [kind |-> "ollama", name |-> model_name]

RemoteAdapter(provider) == [kind |-> "remote", name |-> provider]

IsRemote(a) == a.kind = "remote"

IsLocal(a) == a.kind \in {"ollama", "client"}

\* The local model names that occur: those the router defaults to and those
\* the sample installations offer.
LocalModelNames ==
  {"hermes-roleplay:latest", "codellama:7b-instruct", "mistral:latest",
   "llama3:latest", "dolphin-mixtral:latest", "default-model"}

\* The model_id values a caller supplies ("" is None).
ModelIds == {"", "claude-sonnet", "llama3:latest"}

\* The mode_id values a caller supplies ("" is None).
ModeIds == {"", "private"}

\* The session_id values a caller supplies ("" is None).
SessionIds == {"", "main", "../x"}

\* core/memory.py _validate_session_id: non-empty, at most 64 characters of
\* letters, digits, hyphen and underscore.
_validate_session_id(session_id) == session_id \in {"main", "s2"}

\* core/model_registry.py: COMMERCIAL_MODELS restricted to two ids of
\* Anthropic and one each of Mistral and Moonshot.
COMMERCIAL_MODELS ==
  [m \in {"claude-haiku", "claude-sonnet", "mistral-small", "moonshot-v1"} |->
     CASE m = "claude-haiku" ->
            [provider |-> "anthropic", api_model |-> "claude-3-5-haiku-20241022"]
       [] m = "claude-sonnet" ->
            [provider |-> "anthropic", api_model |-> "claude-3-5-sonnet-20241022"]
       [] m = "mistral-small" ->
            [provider |-> "mistral", api_model |-> "mistral-small-latest"]
       [] OTHER ->
            [provider |-> "moonshot", api_model |-> "moonshot-v1-8k"]]

get_provider_and_api_model(model_id) ==
  IF model_id \in DOMAIN COMMERCIAL_MODELS
    THEN COMMERCIAL_MODELS[model_id]
    ELSE [provider |-> "", api_model |-> ""]

\* `kw in model.lower()` of _find_best_local_model, tabulated for the names
\* and keywords in use.
KeywordsIn(model) ==
  CASE model = "hermes-roleplay:latest" -> {"hermes", "roleplay"}
    [] model = "codellama:7b-instruct"  -> {"codellama", "code"}
    [] model = "mistral:latest"         -> {"mistral"}
    [] model = "llama3:latest"          -> {"llama3"}
    [] model = "dolphin-mixtral:latest" -> {"dolphin", "mixtral", "phi"}
    [] OTHER                            -> {}

\* The first index of models, at or after i, whose name contains kw; 0 if none.
RECURSIVE FirstModelWith(_, _, _)
FirstModelWith(kw, models, i) ==
  IF i > Len(models) THEN 0
  ELSE IF kw \in KeywordsIn(models[i]) THEN i
  ELSE FirstModelWith(kw, models, i + 1)

\* ModelRouter._find_best_local_model: keywords in priority order, for each
\* the models in list order; the default if nothing matches.
RECURSIVE FindBestFrom(_, _, _, _)
FindBestFrom(keywords, k, models, default) ==
  IF k > Len(keywords) THEN default
  ELSE IF FirstModelWith(keywords[k], models, 1) # 0
         THEN models[FirstModelWith(keywords[k], models, 1)]
         ELSE FindBestFrom(keywords, k + 1, models, default)

_find_best_local_model(keywords, default, models) ==
  FindBestFrom(keywords, 1, models, default)

\* The requests' texts.  A text is known by what the code looks at: the
\* intent the semantic path IntentClassifier.classify computes for it, and
\* whether it contains "password" or "secret" (SecurityValidator layer 1).
Texts ==
  { [id |-> "my_password", semantic |-> "private", asks_secret |-> TRUE],
    [id |-> "fix_bug",     semantic |-> "coding",  asks_secret |-> FALSE],
    [id |-> "deep_dive",   semantic |-> "quality", asks_secret |-> FALSE],
    [id |-> "hi",          semantic |-> "speed",   asks_secret |-> FALSE] }

\* IntentClassifier.classify: the semantic path, a function of the text.
classify(text) == text.semantic

\* The texts a generating model returns, known by the features layer 1 and
\* clean_model_placeholders look at.
Bodies == {"benign", "rm_rf", "password", "password_redacted", "placeholder"}

\* The texts the generating models of the pipeline return.
GeneratedBodies == {"benign", "rm_rf", "password"}

HasDangerousPattern(body) == body = "rm_rf"

HasCredentialWord(body) == body \in {"password", "password_redacted"}

HasRedactedMark(body) == body = "password_redacted"

HasPlaceholder(body) == body = "placeholder"

\* What a generating model returns when the role needs no features.
PlainBody == "benign"

\* ------------------------------------------------------------------ state
VARIABLES
  \* AdapterFactory
  remote_instances,        \* providers that have an adapter in _remote_instances
  local_pool,              \* model names that have an adapter in _local_pool
  \* ModelRouter
  local_client,            \* the adapter given as local_client
  available_models,        \* list of installed local model names
  memory_system,           \* TRUE iff a MemorySystem was given
  security_validator,      \* TRUE iff a SecurityValidator was given
  pii_redactor,            \* [present, adapter]: ModelRouter.pii_redactor
  \* SecurityValidator, IntentClassifier
  judge_adapter,           \* SecurityValidator.judge_adapter
  classification_adapter,  \* IntentClassifier.classification_adapter
  \* the request in flight
  pc,                      \* position in the handler
  api,                     \* "route_request" or "route_request_stream"
  req,                     \* [text, model_id, mode_id, session_id]
  intent,                  \* classified intent, "" before classification
  path,                    \* branch of the selection taken
  adapter,                 \* local variable adapter
  adapter_name,            \* local variable adapter_name
  model_override,          \* local variable model_override
  answer,                  \* local variable answer
  security_verdict,        \* local variable security_verdict
  agent,                   \* locals of the CREATE_AGENT loop
  result,                  \* what the handler returned or yielded
  saved,                   \* turns written by save_chat_turn in this request
  trace,                   \* calls made on collaborators, in order
  \* a direct call of SecurityValidator.check_output
  chk,                     \* [pc, asks_secret, body, outcome, verdict, judge_called]
  \* the agent store
  agent_files,             \* slugs of the files in agents/
  agents_json,             \* ids of the entries of data/agents.json, in order
  \* a call of a function wrapped by core/utils.py retry
  rt,                      \* [pc, tries, jitter, plan, m_tries, m_delay, calls, waits, result]
  \* an AdapterFactory exercised on its own
  fac,                     \* instances, flags, keys and the calls made (see NewFactory)
  \* the routing configuration of a ModelRouter exercised on its own
  rc,                      \* [routing_config, file, applied, raised]
  \* IntentClassifier.classify_with_llm called directly
  cls,                     \* [pc, user_input, reply, outcome, intent, confidence]
  \* a MemorySystem exercised on its own
  mem,                     \* the history files and the calls on them
  vlt                      \* the vault: key, unlock time, files and calls

cfg_vars == <<remote_instances, local_pool, local_client, available_models,
              memory_system, security_validator, pii_redactor, judge_adapter,
              classification_adapter>>

req_vars == <<pc, api, req, intent, path, adapter, adapter_name,
              model_override, answer, security_verdict, agent, result, saved,
              trace>>

\* The agents directory and the agent registry file.
agent_store == <<agent_files, agents_json>>

\* The state of the components exercised on their own.
aux_vars == <<rt, fac, rc, cls, mem, vlt>>

vars == <<cfg_vars, req_vars, chk, agent_store, aux_vars>>

\* ----------------------------------------------------------- input sets
\* The provider sets for which a key exists and a client was constructed.
KeyedProviderSets == {{}, {"anthropic", "mistral"}}

\* The lists of installed local models (OllamaAdapter.get_available_models).
InstalledModelLists ==
  { <<>>,
    <<"dolphin-mixtral:latest", "hermes-roleplay:latest", "codellama:7b-instruct">> }

\* The adapters handed to the router as local_client: the pooled adapter of
\* the default model (core/main.py) or a ModelAdapter of another class.
LocalClients ==
  {OllamaAdapter("default-model"), [kind |-> "client", name |-> "local_client"]}

\* The adapters given to a role (classifier delegate, judge, redactor).
RoleAdapters == {NoAdapter, RemoteAdapter("anthropic")}

NoAnswer == [kind |-> "none", by |-> NoAdapter, body |-> "", reason |-> "",
             redacted |-> FALSE, cleaned |-> FALSE]

\* security_verdict before the handler assigns it.
NoVerdict == [is_safe |-> FALSE, reason |-> "unassigned", checked |-> FALSE]

NoAgent == [i |-> 0, success |-> FALSE, message |-> "none_suitable",
            gen_adapter |-> NoAdapter, valid |-> FALSE, last |-> 0]

NoResult ==
  [kind |-> "none", intent |-> "", adapter_name |-> [prefix |-> "", name |-> ""],
   answer |-> NoAnswer, model_info |-> NoAdapter, requires_privacy |-> FALSE,
   security |-> [present |-> FALSE, is_safe |-> FALSE, reason |-> ""],
   agent_generated |-> FALSE, exc |-> ""]

NoRequest == [text |-> [id |-> "", semantic |-> "", asks_secret |-> FALSE],
              model_id |-> "", mode_id |-> "", session_id |-> ""]

NoCheck == [pc |-> "none", asks_secret |-> FALSE, body |-> "", outcome |-> "",
            verdict |-> [is_safe |-> FALSE, reason |-> ""], judge_called |-> FALSE]

\* No direct call of classify_with_llm is made.
NoClassify == [pc |-> "none", user_input |-> NoRequest.text, reply |-> <<>>,
               outcome |-> "", intent |-> "", confidence |-> 0,
               calls |-> 0, previous |-> ""]

\* No retry-wrapped call is in progress.
NoRetry == [pc |-> "none", tries |-> 0, backoff |-> 0, jitter |-> FALSE,
            plan |-> <<>>, m_tries |-> 0, m_delay |-> 0, calls |-> 0,
            waits |-> <<>>, result |-> ""]

\* No factory call has been recorded.
NoCall == [op |-> "", arg |-> "", result |-> 0, constructed |-> 0]

\* No request holds an adapter reference.
NoTask == [pc |-> "idle", provider |-> "", ref |-> 0, key_stable |-> FALSE,
           stale |-> FALSE]

\* The names given to get_local_adapter.
PoolNames == {"llama3", "mistral"}

\* No role of the router holds a remote adapter.
NoHeld == [role |-> "", provider |-> "", ref |-> 0, invoked |-> ""]

\* AdapterFactory.__init__ (factory.py 33-36) in a process with the given
\* keys in data/credentials.json and in the environment and the given
\* client packages installed.  Instances are numbered in the order of their
\* construction; 0 stands for no instance.
NewFactory(creds, env, packages) ==
  [_initialized |-> FALSE,
   remote_id |-> [p \in Providers |-> 0],
   local_id |-> [n \in PoolNames |-> 0],
   next_id |-> 0,
   creds |-> creds, env |-> env, packages |-> packages,
   init_keys |-> {},
   returned |-> [n \in PoolNames |-> {}],
   last |-> NoCall,
   task |-> NoTask,
   held |-> NoHeld]

\* The factory of the routing runs, whose maps are remote_instances and
\* local_pool.
NoFactory == NewFactory({}, {}, {})

\* The roles of the routing configuration.
Roles == {"intent_classification", "security_judge", "pii_redactor"}

\* ModelRouter.routing_config = {} and an empty configuration file; no
\* configuration has been applied.  "" stands for a missing key.
NoConfig == [routing_config |-> [r \in Roles |-> ""],
             file |-> [r \in Roles |-> ""],
             applied |-> FALSE, raised |-> "", op |-> ""]

\* The session ids given to a MemorySystem called directly.
MemorySessions == {"main", "s2", "../x"}

\* The concurrent callers of one MemorySystem.
Callers == {1, 2}

\* No call of a caller is in progress.
NoSave == [pc |-> "idle", session_id |-> "", turn |-> 0, history |-> <<>>]

\* A MemorySystem on an empty history directory: no file, no call made.
\* saved lists the calls of save_chat_turn that returned, in that order.
NoMemory ==
  [files |-> [s \in {x \in MemorySessions : _validate_session_id(x)} |-> <<>>],
   calls |-> [c \in Callers |-> NoSave],
   started |-> 0, saved |-> <<>>, overlapped |-> FALSE, raised |-> FALSE,
   got |-> [pc |-> "none", session_id |-> "", limit |-> 0, result |-> <<>>,
            saved |-> <<>>, sequential |-> FALSE]]

\* A MemorySystem after construction: vault_fernet and last_unlock_time are
\* None, no salt and no vault file exist.  The clock counts hours.
\* unlocked_at is the hour of the last successful unlock_vault that no
\* lock_vault or destroy_vault followed; call is the last call of
\* save_to_vault or get_from_vault.
NoVault ==
  [vault_fernet |-> FALSE, last_unlock_time |-> <<>>, now |-> 0,
   salt |-> FALSE, files |-> {}, unlocked_at |-> <<>>,
   call |-> [pc |-> "none", op |-> "", key |-> "", locked |-> FALSE,
             outcome |-> "", wrote |-> FALSE]]

MemoryIdle == mem = NoMemory /\ vlt = NoVault

\* The components exercised on their own are at rest.
AuxIdle ==
  /\ rt = NoRetry /\ fac = NoFactory /\ rc = NoConfig /\ cls = NoClassify
  /\ MemoryIdle

\* No request is in flight.
Idle ==
  /\ pc = "idle"
  /\ api = ""
  /\ req = NoRequest
  /\ intent = ""
  /\ path = ""
  /\ adapter = NoAdapter
  /\ adapter_name = [prefix |-> "", name |-> ""]
  /\ model_override = ""
  /\ answer = NoAnswer
  /\ security_verdict = NoVerdict
  /\ agent = NoAgent
  /\ result = NoResult
  /\ saved = <<>>
  /\ trace = <<>>

\* ModelRouter.__init__ with an empty routing configuration, AdapterFactory
\* after initialize_remotes, IntentClassifier.__init__, SecurityValidator
\* .__init__(judge_adapter).
Init ==
  /\ remote_instances \in KeyedProviderSets
  /\ local_client \in LocalClients
  /\ local_pool = IF local_client.kind = "ollama" THEN {local_client.name} ELSE {}
  /\ available_models \in InstalledModelLists
  /\ memory_system \in BOOLEAN
  /\ security_validator \in BOOLEAN
  /\ judge_adapter = IF security_validator THEN local_client ELSE NoAdapter
  /\ classification_adapter = NoAdapter
  /\ pii_redactor = [present |-> FALSE, adapter |-> NoAdapter]
  /\ Idle
  /\ chk = NoCheck
  /\ agent_files = {}
  /\ agents_json = <<>>
  /\ AuxIdle

\* ---------------------------------------------------------------- helpers
Range(seq) == {seq[i] : i \in 1..Len(seq)}

\* A call on a collaborator: what was called, on which adapter, in which
\* role, whether the payload contains the request's text, the text passed
\* for processing (NoAnswer if none) and how the call ended ("ok" or the
\* exception raised).
Event(ev, a, role, has_text, arg, outcome) ==
  [ev |-> ev, adapter |-> a, role |-> role, user_text |-> has_text,
   arg |-> arg, outcome |-> outcome]

\* The outcomes of one generate call, by the adapter's class.
\* OllamaAdapter.generate catches every exception and returns an error text;
\* the remote adapters raise AdapterError only; a ModelAdapter of another
\* class may return or raise anything.
GenerateRaises(a) ==
  CASE a.kind \in {"ollama", "none"} -> {}
    [] a.kind = "remote" -> {"AdapterError"}
    [] OTHER             -> {"AdapterError", "Exception"}

\* The texts generate returns, by the adapter's class, drawn from bodies.
GenerateReturns(a, bodies) ==
  IF a.kind = "ollama" THEN bodies \cup {"local_error"} ELSE bodies

Generated(a, body) ==
  [kind |-> "generated", by |-> a, body |-> body, reason |-> "",
   redacted |-> FALSE, cleaned |-> FALSE]

ErrorText(kind) ==
  [kind |-> kind, by |-> NoAdapter, body |-> "error_text", reason |-> "",
   redacted |-> FALSE, cleaned |-> FALSE]

\* adapter_name: the name and the marker the fallback puts in front of it.
Name(n) == [prefix |-> "", name |-> n]

\* ------------------------------------------------------ role configuration
\* IntentClassifier.set_adapter(adapter).
set_adapter(a) ==
  /\ pc = "idle"
  /\ classification_adapter' = a
  /\ UNCHANGED <<remote_instances, local_pool, local_client, available_models,
                 memory_system, security_validator, pii_redactor, judge_adapter>>
  /\ UNCHANGED req_vars
  /\ UNCHANGED <<chk, agent_store, aux_vars>>

\* SecurityValidator.set_judge_adapter(adapter).
set_judge_adapter(a) ==
  /\ pc = "idle"
  /\ security_validator
  /\ judge_adapter' = a
  /\ UNCHANGED <<remote_instances, local_pool, local_client, available_models,
                 memory_system, security_validator, pii_redactor,
                 classification_adapter>>
  /\ UNCHANGED req_vars
  /\ UNCHANGED <<chk, agent_store, aux_vars>>

\* ModelRouter.pii_redactor holding PIIRedactor(redactor_adapter = a),
\* or PIIRedactor.set_adapter(a) on the redactor it holds.
InstallPiiRedactor(a) ==
  /\ pc = "idle"
  /\ pii_redactor' = [present |-> TRUE, adapter |-> a]
  /\ UNCHANGED <<remote_instances, local_pool, local_client, available_models,
                 memory_system, security_validator, judge_adapter,
                 classification_adapter>>
  /\ UNCHANGED req_vars
  /\ UNCHANGED <<chk, agent_store, aux_vars>>

\* ----------------------------------------------------------- the request
\* A caller invokes route_request or route_request_stream.
StartRequest(a, text, model_id, mode_id, session_id) ==
  /\ pc = "idle"
  /\ pc' = "classify"
  /\ api' = a
  /\ req' = [text |-> text, model_id |-> model_id, mode_id |-> mode_id,
             session_id |-> session_id]
  /\ UNCHANGED <<intent, path, adapter, adapter_name, model_override,
                 answer, security_verdict, agent, result, saved, trace>>
  /\ UNCHANGED cfg_vars
  /\ UNCHANGED <<chk, agent_store, aux_vars>>

\* The replies of a classification delegate: the category names that occur
\* in the reply, in the order of their first occurrence.
ReplyNames == {"speed", "nsfw", "finance", "create_agent"}

DelegateReplies ==
  {r \in UNION {[1..n -> ReplyNames] : n \in 0..MaxReplyLen} :
     \A i, j \in 1..Len(r) : i # j => r[i] # r[j]}

\* The loop `for intent in Intent: if intent.value.upper() in result` of
\* classify_with_llm, from position k of the enumeration; SPEED if no
\* category name occurs in the reply.
RECURSIVE ParseReplyFrom(_, _)
ParseReplyFrom(reply, k) ==
  IF k > Len(IntentOrder) THEN "speed"
  ELSE IF IntentOrder[k] \in Range(reply) THEN IntentOrder[k]
  ELSE ParseReplyFrom(reply, k + 1)

ParseReply(reply) == ParseReplyFrom(reply, 1)

\* ModelRouter.classify_intent -> IntentClassifier.classify_with_llm.
classify_with_llm ==
  /\ pc = "classify"
  /\ pc' = "route"
  /\ IF classification_adapter = NoAdapter
       THEN /\ intent' = classify(req.text)
            /\ trace' = trace
       ELSE \/ /\ \E reply \in DelegateReplies : intent' = ParseReply(reply)
               /\ trace' = Append(trace, Event("generate", classification_adapter,
                                               "classify", TRUE, NoAnswer, "ok"))
            \/ \E exc \in GenerateRaises(classification_adapter) :
                 /\ intent' = classify(req.text)
                 /\ trace' = Append(trace, Event("generate", classification_adapter,
                                                 "classify", TRUE, NoAnswer, exc))
  /\ UNCHANGED <<api, req, path, adapter, adapter_name,
                 model_override, answer, security_verdict, agent, result, saved>>
  /\ UNCHANGED cfg_vars
  /\ UNCHANGED <<chk, agent_store, aux_vars>>

\* ------------------------------------------------------------- selection
\* AdapterFactory.get_remote_adapter(provider).
get_remote_adapter(provider) ==
  IF provider \in remote_instances THEN RemoteAdapter(provider) ELSE NoAdapter

\* ModelRouter._resolve_model_to_adapter(model_id): the adapter, the API
\* model override and the names get_local_adapter adds to the pool.
_resolve_model_to_adapter(model_id) ==
  LET reg == get_provider_and_api_model(model_id) IN
  IF reg.provider # "" /\ get_remote_adapter(reg.provider) # NoAdapter
    THEN [adapter |-> get_remote_adapter(reg.provider),
          api_model |-> reg.api_model, pooled |-> {}]
  ELSE IF model_id \in {"claude-sonnet", "anthropic"}
    THEN [adapter |-> get_remote_adapter("anthropic"), api_model |-> "",
          pooled |-> {}]
  ELSE IF model_id \in {"moonshot-v1", "moonshot"}
    THEN [adapter |-> get_remote_adapter("moonshot"), api_model |-> "",
          pooled |-> {}]
  ELSE IF model_id \in {"mistral-small", "mistral"}
    THEN [adapter |-> get_remote_adapter("mistral"), api_model |-> "",
          pooled |-> {}]
  ELSE [adapter |-> OllamaAdapter(model_id), api_model |-> "",
        pooled |-> {model_id}]

\* A selection: the adapter, its reported name, the override, the names
\* added to the local pool and the intent reported in the routing metadata.
Selection(a, n, o, pooled, meta_intent) ==
  [adapter |-> a, adapter_name |-> Name(n), model_override |-> o,
   pooled |-> pooled, meta_intent |-> meta_intent]

LocalSelection(keywords, default, meta_intent) ==
  LET model_name == _find_best_local_model(keywords, default, available_models)
  IN Selection(OllamaAdapter(model_name), model_name, "", {model_name}, meta_intent)

\* The privacy branch of both handlers (router.py 169-174, 367-372).
SelectPrivacy ==
  LocalSelection(<<"hermes", "dolphin", "roleplay">>, "hermes-roleplay:latest",
                 intent)

\* A route_request dispatch whose QUALITY branch takes any keyed remote
\* provider before it turns to the local models.
SelectQualityFromAnyRemote ==
  LET chosen ==
        IF req.model_id # ""
          THEN LET r == _resolve_model_to_adapter(req.model_id)
               IN Selection(r.adapter, req.model_id, r.api_model, r.pooled, intent)
        ELSE IF intent = "coding"
          THEN LocalSelection(<<"deepseek-coder", "codellama", "qwen-coder", "code">>,
                              "codellama:7b-instruct", intent)
        ELSE IF intent = "quality"
          THEN IF get_remote_adapter("anthropic") # NoAdapter /\ req.mode_id # "private"
                 THEN Selection(get_remote_adapter("anthropic"), "anthropic", "", {}, intent)
               ELSE IF get_remote_adapter("mistral") # NoAdapter /\ req.mode_id # "private"
                 THEN Selection(get_remote_adapter("mistral"), "mistral", "", {}, intent)
               ELSE LocalSelection(<<"hermes", "llama3", "mistral", "mixtral", "gemma">>,
                                   "hermes-roleplay:latest", intent)
        ELSE IF intent = "speed"
          THEN IF get_remote_adapter("mistral") # NoAdapter /\ req.mode_id # "private"
                 THEN Selection(get_remote_adapter("mistral"), "mistral", "", {}, intent)
                 ELSE LocalSelection(<<"mistral", "gemma", "phi", "tiny", "llama3">>,
                                     "mistral:latest", intent)
        ELSE Selection(NoAdapter, "local-default", "", {}, intent)
  IN IF chosen.adapter = NoAdapter
       THEN [chosen EXCEPT !.adapter = local_client,
                           !.adapter_name = Name("local-default")]
       ELSE chosen

\* route_request, lines 259-298.
SelectRouteRequest ==
  LET chosen ==
        IF req.model_id # ""
          THEN LET r == _resolve_model_to_adapter(req.model_id)
               IN Selection(r.adapter, req.model_id, r.api_model, r.pooled, intent)
        ELSE IF intent = "coding"
          THEN LocalSelection(<<"deepseek-coder", "codellama", "qwen-coder", "code">>,
                              "codellama:7b-instruct", intent)
        ELSE IF intent = "quality"
          THEN IF get_remote_adapter("anthropic") # NoAdapter /\ req.mode_id # "private"
                 THEN Selection(get_remote_adapter("anthropic"), "anthropic", "", {}, intent)
                 ELSE LocalSelection(<<"hermes", "llama3", "mistral", "mixtral", "gemma">>,
                                     "hermes-roleplay:latest", intent)
        ELSE IF intent = "speed"
          THEN IF get_remote_adapter("mistral") # NoAdapter /\ req.mode_id # "private"
                 THEN Selection(get_remote_adapter("mistral"), "mistral", "", {}, intent)
                 ELSE LocalSelection(<<"mistral", "gemma", "phi", "tiny", "llama3">>,
                                     "mistral:latest", intent)
        ELSE Selection(NoAdapter, "local-default", "", {}, intent)
  IN IF chosen.adapter = NoAdapter
       THEN [chosen EXCEPT !.adapter = local_client,
                           !.adapter_name = Name("local-default")]
       ELSE chosen

\* route_request_stream, lines 433-483.
SelectStream ==
  IF req.model_id # ""
    THEN LET r == _resolve_model_to_adapter(req.model_id)
         IN Selection(r.adapter, req.model_id, r.api_model, r.pooled, "manual")
  ELSE IF intent = "coding"
    THEN LocalSelection(<<"deepseek-coder", "codellama", "qwen-coder", "code">>,
                        "codellama:7b-instruct", intent)
  ELSE IF intent = "quality"
    THEN IF get_remote_adapter("anthropic") # NoAdapter /\ req.mode_id # "private"
           THEN Selection(get_remote_adapter("anthropic"), "anthropic", "", {}, intent)
         ELSE IF get_remote_adapter("mistral") # NoAdapter /\ req.mode_id # "private"
           THEN Selection(get_remote_adapter("mistral"), "mistral", "", {}, intent)
         ELSE LocalSelection(<<"hermes", "llama3", "mistral", "mixtral", "gemma">>,
                             "hermes-roleplay:latest", intent)
  ELSE IF intent = "speed"
    THEN IF get_remote_adapter("mistral") # NoAdapter /\ req.mode_id # "private"
           THEN Selection(get_remote_adapter("mistral"), "mistral", "", {}, intent)
           ELSE LocalSelection(<<"mistral", "gemma", "phi", "tiny", "llama3">>,
                               "mistral:latest", intent)
  ELSE Selection(local_client, "local-default", "", {}, intent)

\* A privacy branch that an explicit model choice switches off.
PrivacyPathOverridable ==
  req.model_id = "" /\ (intent \in {"private", "nsfw"} \/ req.mode_id = "private")

\* The condition of the privacy branch (router.py 169, 367).
PrivacyPath == intent \in {"private", "nsfw"} \/ req.mode_id = "private"

\* ---------------------------------------------------------------- results
NoSecurity == [present |-> FALSE, is_safe |-> FALSE, reason |-> ""]

Security(verdict) ==
  [present |-> TRUE, is_safe |-> verdict.is_safe, reason |-> verdict.reason]

\* The dictionary route_request returns.
Response(i, n, ans, info, privacy, sec, generated) ==
  [kind |-> "return", intent |-> i, adapter_name |-> n, answer |-> ans,
   model_info |-> info, requires_privacy |-> privacy, security |-> sec,
   agent_generated |-> generated, exc |-> ""]

\* The pair (text, routing_meta) route_request_stream yields.
Yield(ans, i, n, privacy, generated) ==
  [kind |-> "yield", intent |-> i, adapter_name |-> n, answer |-> ans,
   model_info |-> NoAdapter, requires_privacy |-> privacy,
   security |-> NoSecurity, agent_generated |-> generated, exc |-> ""]

\* An exception leaving the handler.
Raised(exc) ==
  [kind |-> "raise", intent |-> "", adapter_name |-> Name(""),
   answer |-> NoAnswer, model_info |-> NoAdapter, requires_privacy |-> FALSE,
   security |-> NoSecurity, agent_generated |-> FALSE, exc |-> exc]
\* ----------------------------------------------------------------- routing
\* route_request 152-298 and route_request_stream 355-487: memory injection,
\* context load and the selection of the adapter, up to the next await.
Route ==
  /\ pc = "route"
  /\ LET searched == IF memory_system
                         THEN <<Event("search_long_term_memory", NoAdapter, "", TRUE,
                                      NoAnswer, "ok")>>
                         ELSE <<>>
           loaded == IF api = "route_request" /\ req.session_id # "" /\ memory_system
                       THEN <<Event("get_context", NoAdapter, "", FALSE, NoAnswer, "ok")>>
                       ELSE <<>>
       IN trace' = trace \o searched \o loaded
  /\ IF PrivacyPath
       THEN /\ path' = "privacy"
            /\ adapter' = SelectPrivacy.adapter
            /\ adapter_name' = SelectPrivacy.adapter_name
            /\ model_override' = ""
            /\ local_pool' = local_pool \cup SelectPrivacy.pooled
            /\ pc' = "generate"
            /\ UNCHANGED <<agent, result>>
     ELSE IF intent = "create_agent"
       THEN /\ path' = "agent"
            /\ agent' = [NoAgent EXCEPT !.i = 1]
            /\ pc' = "agent"
            /\ UNCHANGED <<adapter, adapter_name, model_override, local_pool, result>>
     ELSE LET sel == IF api = "route_request" THEN SelectRouteRequest ELSE SelectStream
          IN /\ path' = IF req.model_id # "" THEN "manual" ELSE "intent"
             /\ adapter' = sel.adapter
             /\ adapter_name' = sel.adapter_name
             /\ model_override' = sel.model_override
             /\ local_pool' = local_pool \cup sel.pooled
             /\ agent' = agent
             /\ IF sel.adapter = NoAdapter
                  THEN \* stream only: `if not adapter: yield error; return`
                       /\ pc' = "done"
                       /\ result' = Yield(ErrorText("no_adapter"), sel.meta_intent,
                                           sel.adapter_name, FALSE, FALSE)
                  ELSE /\ pc' = "generate"
                       /\ result' = result
  /\ UNCHANGED <<api, req, intent, answer, security_verdict, saved>>
  /\ UNCHANGED <<remote_instances, local_client, available_models, memory_system,
                 security_validator, pii_redactor, judge_adapter,
                 classification_adapter>>
  /\ UNCHANGED <<chk, agent_store, aux_vars>>

\* The intent route_request_stream reports in its routing metadata.
MetaIntent == IF path = "manual" THEN "manual" ELSE intent

\* The requires_privacy route_request_stream reports.
MetaPrivacy == path = "privacy"

\* -------------------------------------------------------------- generation
\* isinstance(adapter, OllamaAdapter) and hasattr(adapter, "generate_stream").
Streams(a) == a.kind = "ollama"

\* The call that produces the answer: generate_stream when streaming from
\* an OllamaAdapter, generate otherwise.
GenerateCall ==
  IF api = "route_request_stream" /\ Streams(adapter)
    THEN "generate_stream" ELSE "generate"

\* The primary generate call: route_request 175-179 (privacy branch) and
\* 300-305, route_request_stream 489-495 and 514.
Generate ==
  /\ pc = "generate"
  /\ \/ \E body \in GenerateReturns(adapter, GeneratedBodies) :
          /\ trace' = Append(trace, Event(GenerateCall, adapter, "answer", TRUE,
                                          NoAnswer, "ok"))
          /\ answer' = Generated(adapter, body)
          /\ pc' = IF api = "route_request" /\ path = "privacy" THEN "persist"
                   ELSE "security"
          /\ UNCHANGED <<adapter, adapter_name, result>>
     \/ \E exc \in GenerateRaises(adapter) :
          /\ ~(api = "route_request_stream" /\ Streams(adapter))
          /\ trace' = Append(trace, Event(GenerateCall, adapter, "answer", TRUE,
                                          NoAnswer, exc))
          /\ IF api = "route_request" /\ path = "privacy"
               THEN IF exc = "AdapterError"
                      THEN /\ answer' = ErrorText("private_error")
                           /\ pc' = "persist"
                           /\ UNCHANGED <<adapter, adapter_name, result>>
                      ELSE /\ pc' = "done"
                           /\ result' = Raised(exc)
                           /\ UNCHANGED <<adapter, adapter_name, answer>>
             ELSE IF api = "route_request"
               THEN IF exc = "AdapterError"
                      THEN /\ adapter' = local_client
                           /\ adapter_name' = [adapter_name EXCEPT !.prefix = "fallback-"]
                           /\ pc' = "fallback"
                           /\ UNCHANGED <<answer, result>>
                      ELSE /\ pc' = "done"
                           /\ result' = Raised(exc)
                           /\ UNCHANGED <<adapter, adapter_name, answer>>
             ELSE /\ pc' = "done"
                  /\ result' = Raised(exc)
                  /\ UNCHANGED <<adapter, adapter_name, answer>>
  /\ UNCHANGED <<api, req, intent, path, model_override,
                 security_verdict, agent, saved>>
  /\ UNCHANGED cfg_vars
  /\ UNCHANGED <<chk, agent_store, aux_vars>>

\* A fallback whose failure leaves the handler.
FallbackPropagates ==
  /\ pc = "fallback"
  /\ \/ \E body \in GenerateReturns(adapter, GeneratedBodies) :
          /\ answer' = Generated(adapter, body)
          /\ trace' = Append(trace, Event("generate", adapter, "fallback", TRUE,
                                          NoAnswer, "ok"))
          /\ pc' = "security"
          /\ result' = result
     \/ \E exc \in GenerateRaises(adapter) :
          /\ answer' = answer
          /\ trace' = Append(trace, Event("generate", adapter, "fallback", TRUE,
                                          NoAnswer, exc))
          /\ pc' = "done"
          /\ result' = Raised(exc)
  /\ UNCHANGED <<api, req, intent, path, adapter, adapter_name,
                 model_override, security_verdict, agent, saved>>
  /\ UNCHANGED cfg_vars
  /\ UNCHANGED <<chk, agent_store, aux_vars>>

\* The fallback generate call on local_client: route_request 306-310.
Fallback ==
  /\ pc = "fallback"
  /\ \/ \E body \in GenerateReturns(adapter, GeneratedBodies) :
          /\ answer' = Generated(adapter, body)
          /\ trace' = Append(trace, Event("generate", adapter, "fallback", TRUE,
                                          NoAnswer, "ok"))
     \/ \E exc \in GenerateRaises(adapter) :
          /\ answer' = ErrorText("both_failed")
          /\ trace' = Append(trace, Event("generate", adapter, "fallback", TRUE,
                                          NoAnswer, exc))
  /\ pc' = "security"
  /\ UNCHANGED <<api, req, intent, path, adapter, adapter_name,
                 model_override, security_verdict, agent, result, saved>>
  /\ UNCHANGED cfg_vars
  /\ UNCHANGED <<chk, agent_store, aux_vars>>

\* --------------------------------------------------------- security check
\* The replies of a judge model: the expected two lines with SAFE, the
\* expected two lines with UNSAFE, "Verdict: UNSAFE" with no "Reason:" line,
\* and a text that has neither form.
JudgeReplies == {"safe", "unsafe_reason", "unsafe_bare", "unparseable"}

\* SecurityValidator.check_output, layer 1 (security.py 21-45).
Layer1(asks_secret, body) ==
  IF HasDangerousPattern(body)
    THEN [is_safe |-> FALSE, reason |-> "malicious_shell_command"]
  ELSE IF /\ HasCredentialWord(body)
          /\ ~HasRedactedMark(body)
          /\ asks_secret
    THEN [is_safe |-> FALSE, reason |-> "credential_exfiltration"]
  ELSE [is_safe |-> TRUE, reason |-> "no_obvious_threats"]

\* A layer 2 that consults the judge whatever layer 1 found.
JudgeAlwaysConsulted(layer1, judge) == judge # NoAdapter

\* TRUE iff layer 2 calls the judge (security.py 48).
JudgeConsulted(layer1, judge) == layer1.is_safe /\ judge # NoAdapter

\* A layer 2 that blocks unless the judge replied SAFE in the expected form.
Layer2FailsClosed(layer1, outcome) ==
  IF outcome = "safe"
    THEN layer1
    ELSE [is_safe |-> FALSE, reason |-> "llm_flagged_unsafe"]

\* A layer 2 that flags the output on an UNSAFE reply and keeps the reason
\* of layer 1.
Layer2KeepsReason(layer1, outcome) ==
  IF outcome \in {"unsafe_reason", "unsafe_bare"}
    THEN [is_safe |-> FALSE, reason |-> layer1.reason]
    ELSE layer1

\* SecurityValidator.check_output, layer 2 (security.py 70-86): outcome is a
\* reply of the judge or the exception its generate raised.
Layer2(layer1, outcome) ==
  IF outcome \in {"unsafe_reason", "unsafe_bare"}
    THEN [is_safe |-> FALSE,
          reason |-> IF outcome = "unsafe_reason" THEN "judge_reason"
                     ELSE "llm_flagged_unsafe"]
    ELSE layer1

\* The outcomes of the judge's generate call: a reply or an exception.
JudgeOutcomes(judge) == JudgeReplies \cup GenerateRaises(judge)

\* SecurityValidator.check_output(original_prompt, model_output).
check_output(asks_secret, body, judge, outcome) ==
  IF JudgeConsulted(Layer1(asks_secret, body), judge)
    THEN Layer2(Layer1(asks_secret, body), outcome)
    ELSE Layer1(asks_secret, body)

\* f"[SECURITY BLOCK] {security_verdict['reason']}".
BlockMessage(reason) ==
  [kind |-> "block", by |-> NoAdapter, body |-> "security_block",
   reason |-> reason, redacted |-> FALSE, cleaned |-> FALSE]

\* A verdict that leaves the generated output in place.
BlockedKeepsOutput(text, verdict) == text

\* The answer after the verdict (router.py 316-317, 503-504, 520-521).
Blocked(text, verdict) ==
  IF verdict.is_safe THEN text ELSE BlockMessage(verdict.reason)

\* TRUE iff the handler runs the security check (router.py 314, 499, 516).
SecurityCheckRuns == intent \notin {"private", "nsfw"} /\ security_validator

\* route_request 312-317, route_request_stream 497-504 and 515-521.
SecurityCheck ==
  /\ pc = "security"
  /\ pc' = "redact"
  /\ IF SecurityCheckRuns
       THEN \E outcome \in JudgeOutcomes(judge_adapter) :
              LET layer1 == Layer1(req.text.asks_secret, answer.body)
                  verdict == check_output(req.text.asks_secret, answer.body,
                                          judge_adapter, outcome)
                  judged == IF JudgeConsulted(layer1, judge_adapter)
                              THEN <<Event("generate", judge_adapter, "judge", TRUE,
                                           answer,
                                           IF outcome \in JudgeReplies THEN "ok"
                                           ELSE outcome)>>
                              ELSE <<>>
              IN /\ trace' = Append(trace, Event("check_output", NoAdapter, "", TRUE,
                                                 answer, "ok")) \o judged
                 /\ security_verdict' = [is_safe |-> verdict.is_safe,
                                         reason |-> verdict.reason, checked |-> TRUE]
                 /\ answer' = Blocked(answer, verdict)
       ELSE /\ security_verdict' = [is_safe |-> TRUE, reason |-> "", checked |-> FALSE]
            /\ UNCHANGED <<answer, trace>>
  /\ UNCHANGED <<api, req, intent, path, adapter, adapter_name,
                 model_override, agent, result, saved>>
  /\ UNCHANGED cfg_vars
  /\ UNCHANGED <<chk, agent_store, aux_vars>>

\* ---------------------------------------------------------------- redaction
\* core/utils.clean_model_placeholders: removes placeholder artifacts such as
\* [GLOBAL_LOCATION] from the text.
clean_model_placeholders(text) ==
  [text EXCEPT !.body = IF HasPlaceholder(@) THEN "benign" ELSE @,
               !.cleaned = TRUE]

\* A redaction that does not look at the verdict.
RedactionIgnoresVerdict == pii_redactor.present

\* TRUE iff the handler calls PIIRedactor.redact (router.py 320, 507, 523).
RedactionRuns == security_verdict.is_safe /\ pii_redactor.present

\* A redaction that returns a redacted text whatever the adapter did.
RedactsRegardless(text, redactor_adapter, outcome) ==
  [text EXCEPT !.redacted = TRUE]

\* PIIRedactor.redact(text): the input when no adapter is configured or the
\* adapter raises, else the adapter's reply.
redact(text, redactor_adapter, outcome) ==
  IF redactor_adapter = NoAdapter \/ outcome # "ok"
    THEN text
    ELSE [text EXCEPT !.redacted = TRUE]

\* route_request 319-324, route_request_stream 506-511 and 523-527: the
\* redaction, the placeholder clean-up and, when streaming, the yield.
Redact ==
  /\ pc = "redact"
  /\ \E outcome \in {"ok"} \cup GenerateRaises(pii_redactor.adapter) :
       IF RedactionRuns
         THEN LET called == IF pii_redactor.adapter # NoAdapter
                              THEN <<Event("generate", pii_redactor.adapter, "redact",
                                           FALSE, answer, outcome)>>
                              ELSE <<>>
              IN /\ trace' = Append(trace, Event("redact", NoAdapter, "", FALSE,
                                                 answer, "ok")) \o called
                 /\ answer' = clean_model_placeholders(
                                 redact(answer, pii_redactor.adapter, outcome))
         ELSE /\ outcome = "ok"
              /\ trace' = trace
              /\ answer' = clean_model_placeholders(answer)
  /\ IF api = "route_request"
       THEN /\ pc' = "persist"
            /\ result' = result
       ELSE /\ pc' = "done"
            /\ result' = Yield(answer', MetaIntent, adapter_name, MetaPrivacy, FALSE)
  /\ UNCHANGED <<api, req, intent, path, adapter, adapter_name,
                 model_override, security_verdict, agent, saved>>
  /\ UNCHANGED cfg_vars
  /\ UNCHANGED <<chk, agent_store, aux_vars>>

\* -------------------------------------------------------------- persistence
\* The user_input the handler works with.  The [PAST KNOWLEDGE] prefix of
\* the memory injection leaves the request's text in it.
UserInput ==
  [kind |-> "user_input", by |-> NoAdapter, body |-> req.text.id,
   reason |-> "",
   redacted |-> FALSE, cleaned |-> FALSE]

Turn(role, content) == [role |-> role, content |-> content]

\* TRUE iff the handler saves the turn pair (router.py 189, 230, 326).
PersistRuns == req.session_id # "" /\ memory_system

\* The outcomes of the two save_chat_turn calls: both succeed, the first
\* raises MemoryError, or the second does (memory.py 125-157).
SaveOutcomes == {"saved", "user_turn_fails", "assistant_turn_fails"}

\* The outcomes for the session id given: save_chat_turn rejects an invalid
\* id with MemoryError before it touches the file (memory.py 126-127).
SaveOutcomesFor(session_id) ==
  IF _validate_session_id(session_id) THEN SaveOutcomes ELSE {"user_turn_fails"}

\* The two save_chat_turn calls of a handler for the assistant text given.
SaveTurns(outcome, text) ==
  /\ trace' = trace \o
       (IF outcome = "user_turn_fails"
          THEN <<Event("save_chat_turn", NoAdapter, "user", TRUE, UserInput,
                       "MemoryError")>>
          ELSE <<Event("save_chat_turn", NoAdapter, "user", TRUE, UserInput, "ok"),
                 Event("save_chat_turn", NoAdapter, "assistant", FALSE, text,
                       IF outcome = "saved" THEN "ok" ELSE "MemoryError")>>)
  /\ saved' = saved \o
       (CASE outcome = "user_turn_fails" -> <<>>
          [] outcome = "assistant_turn_fails" -> <<Turn("user", UserInput)>>
          [] OTHER -> <<Turn("user", UserInput), Turn("assistant", text)>>)

\* A persistence that does not wait for the redaction stage.
PersistBeforeRedaction ==
  /\ pc \in {"redact", "persist"}
  /\ api = "route_request"
  /\ pc' = "done"
  /\ LET response ==
           IF path = "privacy"
             THEN Response(intent, adapter_name, answer, adapter, TRUE,
                           [present |-> TRUE, is_safe |-> TRUE, reason |-> ""],
                           FALSE)
             ELSE Response(intent, adapter_name, answer, adapter,
                           intent \in {"private", "nsfw"},
                           Security(security_verdict), FALSE)
     IN IF PersistRuns
          THEN \E outcome \in SaveOutcomesFor(req.session_id) :
                 /\ SaveTurns(outcome, answer)
                 /\ result' = IF outcome = "saved" THEN response
                              ELSE Raised("MemoryError")
          ELSE /\ result' = response
               /\ UNCHANGED <<saved, trace>>
  /\ UNCHANGED <<api, req, intent, path, adapter, adapter_name,
                 model_override, answer, security_verdict, agent>>
  /\ UNCHANGED cfg_vars
  /\ UNCHANGED <<chk, agent_store, aux_vars>>

\* route_request 181-192 (privacy branch) and 326-337: save the turn pair
\* and return the response.
Persist ==
  /\ pc = "persist"
  /\ pc' = "done"
  /\ LET response ==
           IF path = "privacy"
             THEN Response(intent, adapter_name, answer, adapter, TRUE,
                           [present |-> TRUE, is_safe |-> TRUE, reason |-> ""],
                           FALSE)
             ELSE Response(intent, adapter_name, answer, adapter,
                           intent \in {"private", "nsfw"},
                           Security(security_verdict), FALSE)
     IN IF PersistRuns
          THEN \E outcome \in SaveOutcomesFor(req.session_id) :
                 /\ SaveTurns(outcome, answer)
                 /\ result' = IF outcome = "saved" THEN response
                              ELSE Raised("MemoryError")
          ELSE /\ result' = response
               /\ UNCHANGED <<saved, trace>>
  /\ UNCHANGED <<api, req, intent, path, adapter, adapter_name,
                 model_override, answer, security_verdict, agent>>
  /\ UNCHANGED cfg_vars
  /\ UNCHANGED <<chk, agent_store, aux_vars>>

\* ------------------------------------------------------------ CREATE_AGENT
\* adapters_to_try (router.py 199-203, 382-386).
AdaptersToTry ==
  << [name |-> "anthropic", adapter |-> get_remote_adapter("anthropic")],
     [name |-> "mistral",   adapter |-> get_remote_adapter("mistral")],
     [name |-> "local",     adapter |-> local_client] >>

\* The first candidate at or after position i that is not None; one past
\* the list if there is none (`if not adapter: continue`).
RECURSIVE NextCandidate(_)
NextCandidate(i) ==
  IF i > Len(AdaptersToTry) THEN i
  ELSE IF AdaptersToTry[i].adapter # NoAdapter THEN i
  ELSE NextCandidate(i + 1)

\* What one call of generate_and_register_agent(dry_run = True) does with
\* the candidate: returns (True, ready message), returns (False, message)
\* where the message may quote the adapter's error, or raises.  The error
\* text of the Anthropic API may name the x-api-key header; that of a
\* ModelAdapter of another class may be any text.
AgentOutcomes(a) ==
  {"ready", "invalid_code"}
    \cup (IF a.kind \in {"remote", "client"} THEN {"raise"} ELSE {})
    \cup (IF a.kind = "client" THEN {"backend_auth_error"} ELSE {})
    \cup (IF a = RemoteAdapter("anthropic")
            THEN {"anthropic_error", "anthropic_auth_error"} ELSE {})
    \cup (IF a.kind \in {"remote", "client"} /\ a # RemoteAdapter("anthropic")
            THEN {"backend_error"} ELSE {})

\* "Anthropic Error" in message.
HasAnthropicError(message) == message \in {"anthropic_error", "anthropic_auth_error"}

\* "x-api-key" in message.lower().
HasXApiKey(message) == message \in {"anthropic_auth_error", "backend_auth_error"}

\* The id of the generated agent (_extract_agent_id_and_name's default).
GeneratedAgentId == "generated-agent"

\* A call that leaves dry_run at the default of the parameter.
DryRunDefault == FALSE

\* The dry_run argument of the router's calls (router.py 217, 400).
DryRun == TRUE

\* generate_and_register_agent writes the agent file and appends the registry
\* entry only for valid code and only when dry_run is false
\* (agent_generator.py 211-262).
AgentWrites(outcome, dry_run) == outcome = "ready" /\ ~dry_run

\* One iteration of the loop over adapters_to_try that calls the
\* collaborator (router.py 210-227, 393-410).
AgentTry ==
  /\ pc = "agent"
  /\ NextCandidate(agent.i) <= Len(AdaptersToTry)
  /\ LET j == NextCandidate(agent.i)
         cand == AdaptersToTry[j]
     IN \E outcome \in AgentOutcomes(cand.adapter) :
         /\ trace' = Append(trace,
                 Event("generate_and_register_agent", cand.adapter, "agent", TRUE,
                       NoAnswer, IF outcome = "raise" THEN "Exception" ELSE "ok"))
         /\ IF outcome = "raise"
               THEN agent' = [agent EXCEPT !.i = j + 1, !.message = "failed_with",
                                           !.last = j]
             ELSE IF outcome = "ready" \/ ~HasAnthropicError(outcome)
               THEN agent' = [i |-> Len(AdaptersToTry) + 1,
                              success |-> (outcome = "ready"),
                              message |-> outcome, gen_adapter |-> cand.adapter,
                              valid |-> (outcome = "ready"), last |-> j]
             ELSE agent' = [agent EXCEPT !.i = j + 1, !.success = FALSE,
                                         !.message = outcome, !.valid = FALSE,
                                         !.last = j]
         /\ IF AgentWrites(outcome, DryRun)
              THEN /\ agent_files' = agent_files \cup {GeneratedAgentId}
                   /\ agents_json' = Append(agents_json, GeneratedAgentId)
              ELSE UNCHANGED agent_store
  /\ UNCHANGED <<pc, api, req, intent, path, adapter, adapter_name,
                 model_override, answer, security_verdict, result, saved>>
  /\ UNCHANGED cfg_vars
  /\ UNCHANGED <<chk, aux_vars>>

AgentMessage(message, a) ==
  [kind |-> "agent_message", by |-> a, body |-> message, reason |-> "",
   redacted |-> FALSE, cleaned |-> FALSE]

\* After the loop: route_request 229-257 saves the turn pair, rewrites an
\* authentication message and returns; route_request_stream 412-432 rewrites
\* and yields.
AgentRespond ==
  /\ pc = "agent"
  /\ NextCandidate(agent.i) > Len(AdaptersToTry)
  /\ pc' = "done"
  /\ LET message == AgentMessage(agent.message, agent.gen_adapter)
         final == IF ~agent.success /\ HasXApiKey(agent.message)
                    THEN AgentMessage("check_your_api_keys", agent.gen_adapter)
                    ELSE message
         generated == agent.success /\ agent.valid
     IN /\ answer' = final
        /\ IF api = "route_request"
             THEN IF PersistRuns
                    THEN \E outcome \in SaveOutcomesFor(req.session_id) :
                           /\ SaveTurns(outcome, message)
                           /\ result' =
                                IF outcome = "saved"
                                  THEN Response(intent, Name("agent-generator"), final,
                                                agent.gen_adapter, FALSE,
                                                [present |-> TRUE, is_safe |-> TRUE,
                                                 reason |-> ""], generated)
                                  ELSE Raised("MemoryError")
                    ELSE /\ result' = Response(intent, Name("agent-generator"), final,
                                               agent.gen_adapter, FALSE,
                                               [present |-> TRUE, is_safe |-> TRUE,
                                                reason |-> ""], generated)
                         /\ UNCHANGED <<saved, trace>>
             ELSE /\ result' = Yield(final, intent, Name("agent-generator"), FALSE,
                                     generated)
                  /\ UNCHANGED <<saved, trace>>
  /\ UNCHANGED <<api, req, intent, path, adapter, adapter_name,
                 model_override, security_verdict, agent>>
  /\ UNCHANGED cfg_vars
  /\ UNCHANGED <<chk, agent_store, aux_vars>>

\* register_agent_code(code), called by POST /api/agents/register when the
\* user approves the code a handler returned for review: writes the agent
\* file and appends the registry entry, or fails and leaves both as they
\* were (agent_generator.py 265-321).
register_agent_code ==
  /\ pc = "done"
  /\ result.agent_generated
  /\ GeneratedAgentId \notin agent_files
  /\ \E outcome \in {"registered", "failed"} :
       IF outcome = "registered"
         THEN /\ agent_files' = agent_files \cup {GeneratedAgentId}
              /\ agents_json' = Append(agents_json, GeneratedAgentId)
         ELSE UNCHANGED agent_store
  /\ UNCHANGED <<cfg_vars, req_vars, chk, aux_vars>>

\* ------------------------------------------------------------ specification
\* The adapters a role can be given: none, or a remote adapter the factory
\* holds.
ConfiguredRoleAdapters ==
  {a \in RoleAdapters : IsRemote(a) => a.name \in remote_instances}

Next ==
  \/ \E a \in ConfiguredRoleAdapters : set_adapter(a)
  \/ \E a \in ConfiguredRoleAdapters : set_judge_adapter(a)
  \/ \E a \in ConfiguredRoleAdapters : InstallPiiRedactor(a)
  \/ \E a \in {"route_request", "route_request_stream"}, text \in Texts,
        model_id \in ModelIds, mode_id \in ModeIds, session_id \in SessionIds :
        StartRequest(a, text, model_id, mode_id, session_id)
  \/ classify_with_llm
  \/ Route
  \/ Generate
  \/ Fallback
  \/ SecurityCheck
  \/ Redact
  \/ Persist
  \/ AgentTry
  \/ AgentRespond
  \/ register_agent_code

Spec == Init /\ [][Next]_vars

\* ------------------------------------------------- the selection alone
\* The model_id values of the selection runs: none, registry ids, a legacy
\* alias that is no registry id, and a local model name.
SelectionModelIds ==
  {"", "claude-haiku", "claude-sonnet", "mistral-small", "anthropic",
   "llama3:latest"}

\* The texts of the selection runs: one for every intent the semantic path
\* computes.
SelectionTexts ==
  Texts \cup
  { [id |-> "tax_return", semantic |-> "finance", asks_secret |-> FALSE],
    [id |-> "explicit",   semantic |-> "nsfw",    asks_secret |-> FALSE] }

\* The installed-model lists of the selection runs.
SelectionModelLists ==
  InstalledModelLists \cup {<<"llama3:latest", "mistral:latest">>}

\* A router over any set of keyed providers, with a request received and
\* not yet classified.
InitSelect ==
  /\ remote_instances \in SUBSET Providers
  /\ local_client \in LocalClients
  /\ local_pool = IF local_client.kind = "ollama" THEN {local_client.name} ELSE {}
  /\ available_models \in SelectionModelLists
  /\ memory_system = FALSE
  /\ security_validator = FALSE
  /\ judge_adapter = NoAdapter
  /\ classification_adapter = NoAdapter
  /\ pii_redactor = [present |-> FALSE, adapter |-> NoAdapter]
  /\ pc = "classify"
  /\ api \in {"route_request", "route_request_stream"}
  /\ \E text \in SelectionTexts, model_id \in SelectionModelIds,
        mode_id \in ModeIds :
        req = [text |-> text, model_id |-> model_id, mode_id |-> mode_id,
               session_id |-> ""]
  /\ intent = ""
  /\ path = ""
  /\ adapter = NoAdapter
  /\ adapter_name = [prefix |-> "", name |-> ""]
  /\ model_override = ""
  /\ answer = NoAnswer
  /\ security_verdict = NoVerdict
  /\ agent = NoAgent
  /\ result = NoResult
  /\ saved = <<>>
  /\ trace = <<>>
  /\ chk = NoCheck
  /\ agent_files = {}
  /\ agents_json = <<>>
  /\ AuxIdle

\* Classification and selection, up to the first generate call.
NextSelect ==
  \/ classify_with_llm
  \/ Route

SpecSelect == InitSelect /\ [][NextSelect]_vars

\* ------------------------------------------------- the retry decorator
\* What one invocation of the wrapped function does: returns its value,
\* raises an exception of the declared set, or raises another exception.
CallOutcomes == {"ok", "declared", "other"}

\* The wrapped function, known by what its successive invocations do.
RetryPlans == [1..(MaxTries + 1) -> CallOutcomes]

\* The factors 0.5 + random.random() of the jitter, in tenths: the interval
\* [0.5, 1.5) by its ends and its middle.
JitterTenths == {5, 10, 14}

\* A loop that makes one attempt fewer before the last one.
LoopStopsEarly(m_tries) == m_tries > 2

\* A loop that counts the last attempt twice.
LoopRunsOnceMore(m_tries) == m_tries > 0

\* `while m_tries > 1` (utils.py 32).
InLoop(m_tries) == m_tries > 1

\* A handler that catches every exception.
CatchesAll(outcome) == outcome # "ok"

\* `except exceptions` (utils.py 35): the declared set only.
Caught(outcome) == outcome = "declared"

\* retry(exceptions, tries, delay = 1, backoff, jitter) applied to a function
\* and the wrapper called once.
InitRetry ==
  /\ remote_instances = {}
  /\ local_client = OllamaAdapter("default-model")
  /\ local_pool = {"default-model"}
  /\ available_models = <<>>
  /\ memory_system = FALSE
  /\ security_validator = FALSE
  /\ judge_adapter = NoAdapter
  /\ classification_adapter = NoAdapter
  /\ pii_redactor = [present |-> FALSE, adapter |-> NoAdapter]
  /\ Idle
  /\ chk = NoCheck
  /\ agent_files = {}
  /\ agents_json = <<>>
  /\ \E tries \in 0..MaxTries, backoff \in {1, 2}, jitter \in BOOLEAN,
        plan \in RetryPlans :
        rt = [pc |-> "call", tries |-> tries, backoff |-> backoff,
              jitter |-> jitter, plan |-> plan, m_tries |-> tries,
              m_delay |-> 1, calls |-> 0, waits |-> <<>>, result |-> ""]
  /\ fac = NoFactory
  /\ rc = NoConfig
  /\ cls = NoClassify
  /\ MemoryIdle

\* One attempt of retry.decorator.wrapper (utils.py 30-49): the call of the
\* wrapped function and, for a caught exception inside the loop, the sleep
\* and the update of m_tries and m_delay.
wrapper ==
  /\ rt.pc = "call"
  /\ LET outcome == rt.plan[rt.calls + 1]
     IN IF outcome = "ok"
          THEN rt' = [rt EXCEPT !.pc = "returned", !.calls = @ + 1,
                                !.result = "value"]
        ELSE IF InLoop(rt.m_tries) /\ Caught(outcome)
          THEN \E f \in (IF rt.jitter THEN JitterTenths ELSE {10}) :
                 rt' = [rt EXCEPT !.calls = @ + 1,
                                  !.waits = Append(@, rt.m_delay * f),
                                  !.m_tries = @ - 1,
                                  !.m_delay = @ * rt.backoff]
        ELSE rt' = [rt EXCEPT !.pc = "raised", !.calls = @ + 1,
                              !.result = outcome]
  /\ UNCHANGED <<cfg_vars, req_vars, chk, agent_store, fac, rc, cls, mem, vlt>>

NextRetry == wrapper

SpecRetry == InitRetry /\ [][NextRetry]_vars

\* ------------------------------------------------- the adapter factory
\* The order in which initialize_remotes visits the providers.
ProviderOrder == <<"anthropic", "mistral", "moonshot">>

\* The client package a provider's adapter needs (adapters_remote.py 7-15).
PackageOf(provider) == IF provider = "anthropic" THEN "anthropic" ELSE "openai"

\* _get_provider_key(provider) is not None: a key in the credentials file or
\* in the settings.
_get_provider_key(f, provider) == provider \in f.creds \cup f.env

\* adapter.client of a newly constructed adapter is set: a key and the
\* client package (adapters_remote.py 44-52, 86-94, 136-144).
ClientConstructed(f, provider) ==
  _get_provider_key(f, provider) /\ PackageOf(provider) \in f.packages

\* A factory that stores every adapter it constructs.
StoresWithoutClient(f, provider) == _get_provider_key(f, provider)

\* initialize_remotes stores the adapter of a provider: `if
\* _get_provider_key(p)` and `if adapter.client` (factory.py 43-46).
Stores(f, provider) ==
  _get_provider_key(f, provider) /\ ClientConstructed(f, provider)

\* The providers whose adapter initialize_remotes constructs.
Constructed(f) == {p \in Providers : _get_provider_key(f, p)}

\* The number given to the adapter constructed for the provider.
NewRemoteId(f, provider) ==
  f.next_id +
    Cardinality({i \in 1..Len(ProviderOrder) :
                   /\ ProviderOrder[i] \in Constructed(f)
                   /\ \E j \in i..Len(ProviderOrder) : ProviderOrder[j] = provider})

\* A factory that forgets it was initialized.
NeverInitialized(f) == FALSE

\* `if self._initialized: return` (factory.py 40-41).
AlreadyInitialized(f) == f._initialized

\* The body of initialize_remotes after the guard (factory.py 43-61).
Built(f) ==
  [f EXCEPT !._initialized = TRUE,
            !.remote_id = [p \in Providers |->
                             IF Stores(f, p) THEN NewRemoteId(f, p)
                             ELSE f.remote_id[p]],
            !.next_id = @ + Cardinality(Constructed(f)),
            !.init_keys = {p \in Providers : /\ _get_provider_key(f, p)
                                              /\ ClientConstructed(f, p)}]

\* AdapterFactory.initialize_remotes as a function of the factory.
InitializeRemotes(f) == IF AlreadyInitialized(f) THEN f ELSE Built(f)

\* `self._remote_instances.clear(); self._initialized = False`
\* (factory.py 65-66, 87-88).
Cleared(f) ==
  [f EXCEPT !.remote_id = [p \in Providers |-> 0], !._initialized = FALSE]

\* A rebuild that leaves the refill of the map to a later call.
ReinitializeLeavesEmpty(f) == Cleared(f)

\* AdapterFactory.reinitialize_remotes as a function of the factory
\* (factory.py 63-67): no await between the clear and the refill.
ReinitializeRemotes(f) == InitializeRemotes(Cleared(f))

\* The request in flight after the map changed to that of factory g: its
\* reference is stale if the map no longer holds it.
TaskAfter(f, g) ==
  IF f.task.pc = "holding" /\ g.remote_id[f.task.provider] # f.task.ref
    THEN [f.task EXCEPT !.stale = TRUE]
    ELSE f.task

\* The variables no factory call touches.
FactoryFrame ==
  UNCHANGED <<local_client, available_models, memory_system, security_validator,
              pii_redactor, judge_adapter, classification_adapter, req_vars,
              chk, agent_store, rt, rc, cls, mem, vlt>>

\* The factory g replaces fac after a call on the remote map.
RemoteMapBecomes(g, op, arg) ==
  /\ g.next_id <= MaxInstances
  /\ fac' = [g EXCEPT !.last = [op |-> op, arg |-> arg, result |-> 0,
                                 constructed |-> g.next_id - fac.next_id],
                       !.task = TaskAfter(fac, g)]
  /\ remote_instances' = {p \in Providers : g.remote_id[p] # 0}
  /\ local_pool' = local_pool
  /\ FactoryFrame

\* AdapterFactory.initialize_remotes().
initialize_remotes ==
  RemoteMapBecomes(InitializeRemotes(fac), "initialize_remotes", "")

\* AdapterFactory.reinitialize_remotes().
reinitialize_remotes ==
  RemoteMapBecomes(ReinitializeRemotes(fac), "reinitialize_remotes", "")

\* credentials.save_api_key(provider, key): the credentials file changes,
\* the factory is not told.
save_api_key(provider) ==
  /\ provider \notin fac.creds
  /\ fac' = [fac EXCEPT !.creds = @ \cup {provider},
                        !.last = [NoCall EXCEPT !.op = "save_api_key",
                                                !.arg = provider]]
  /\ UNCHANGED <<remote_instances, local_pool>>
  /\ FactoryFrame

\* connect_ai_service (main.py 636-642): save_api_key and
\* reinitialize_remotes with no await between them.
connect_ai_service(provider) ==
  RemoteMapBecomes(
    ReinitializeRemotes([fac EXCEPT !.creds = @ \cup {provider}]),
    "connect_ai_service", provider)

\* disconnect_ai_service (main.py 688-689): remove_api_key and
\* reinitialize_remotes with no await between them.
disconnect_ai_service(provider) ==
  RemoteMapBecomes(
    ReinitializeRemotes([fac EXCEPT !.creds = @ \ {provider}]),
    "disconnect_ai_service", provider)

\* `provider.lower()` for the names asked.
Lower(provider) == IF provider = "Anthropic" THEN "anthropic" ELSE provider

\* The names given to get_remote_adapter: the providers, one in another
\* case and one the factory does not know.
AskedProviders == Providers \cup {"Anthropic", "openai"}

\* self._remote_instances.get(provider.lower()) (factory.py 78).
RemoteIdOf(f, provider) ==
  IF Lower(provider) \in Providers THEN f.remote_id[Lower(provider)] ELSE 0

\* AdapterFactory.get_remote_adapter(provider), the result recorded.
CallGetRemoteAdapter(provider) ==
  /\ fac' = [fac EXCEPT !.last = [op |-> "get_remote_adapter", arg |-> provider,
                                   result |-> RemoteIdOf(fac, provider),
                                   constructed |-> 0]]
  /\ UNCHANGED <<remote_instances, local_pool>>
  /\ FactoryFrame

\* A pool that constructs an adapter on every call.
NeverPooled(model_name) == FALSE

\* `model_name in self._local_pool` (factory.py 71).
Pooled(model_name) == model_name \in local_pool

\* AdapterFactory.get_local_adapter(model_name), the result recorded.
get_local_adapter(model_name) ==
  /\ IF Pooled(model_name)
       THEN /\ fac' = [fac EXCEPT
                 !.returned[model_name] = @ \cup {fac.local_id[model_name]},
                 !.last = [op |-> "get_local_adapter", arg |-> model_name,
                           result |-> fac.local_id[model_name],
                           constructed |-> 0]]
            /\ local_pool' = local_pool
       ELSE /\ fac.next_id < MaxInstances
            /\ fac' = [fac EXCEPT
                 !.next_id = @ + 1,
                 !.local_id[model_name] = fac.next_id + 1,
                 !.returned[model_name] = @ \cup {fac.next_id + 1},
                 !.last = [op |-> "get_local_adapter", arg |-> model_name,
                           result |-> fac.next_id + 1, constructed |-> 1]]
            /\ local_pool' = local_pool \cup {model_name}
  /\ remote_instances' = remote_instances
  /\ FactoryFrame

\* AdapterFactory.clear() (factory.py 84-88).
clear ==
  /\ LET g == [Cleared(fac) EXCEPT !.local_id = [n \in PoolNames |-> 0],
                                   !.returned = [n \in PoolNames |-> {}],
                                   !.init_keys = {}]
     IN fac' = [g EXCEPT !.last = [NoCall EXCEPT !.op = "clear"],
                         !.task = TaskAfter(fac, g)]
  /\ remote_instances' = {}
  /\ local_pool' = {}
  /\ FactoryFrame

\* A request reads the factory when it selects its adapter
\* (router.py 274, 285: get_remote_adapter) and keeps the reference.
RequestSelects(provider) ==
  /\ fac.task.pc \in {"idle", "done"}
  /\ fac' = [fac EXCEPT !.task =
               [pc |-> "holding", provider |-> provider,
                ref |-> RemoteIdOf(fac, provider),
                key_stable |-> provider \in fac.init_keys /\ Stores(fac, provider),
                stale |-> FALSE]]
  /\ UNCHANGED <<remote_instances, local_pool>>
  /\ FactoryFrame

\* The request generates with the reference it holds and completes
\* (router.py 300-305).
RequestCompletes ==
  /\ fac.task.pc = "holding"
  /\ fac' = [fac EXCEPT !.task.pc = "done"]
  /\ UNCHANGED <<remote_instances, local_pool>>
  /\ FactoryFrame

\* The sets of providers with a key in the environment.
EnvKeySets == {{}, {"anthropic"}}

\* The sets of installed client packages.
PackageSets == {{"anthropic", "openai"}, {"anthropic"}}

\* A new AdapterFactory; no router is attached.
InitFactory ==
  /\ remote_instances = {}
  /\ local_pool = {}
  /\ local_client = NoAdapter
  /\ available_models = <<>>
  /\ memory_system = FALSE
  /\ security_validator = FALSE
  /\ judge_adapter = NoAdapter
  /\ classification_adapter = NoAdapter
  /\ pii_redactor = [present |-> FALSE, adapter |-> NoAdapter]
  /\ Idle
  /\ chk = NoCheck
  /\ agent_files = {}
  /\ agents_json = <<>>
  /\ rt = NoRetry
  /\ rc = NoConfig
  /\ cls = NoClassify
  /\ MemoryIdle
  /\ \E env \in EnvKeySets, packages \in PackageSets,
        creds \in {{}, {"mistral"}} :
        fac = NewFactory(creds, env, packages)

NextFactory ==
  \/ initialize_remotes
  \/ reinitialize_remotes
  \/ \E provider \in Providers : save_api_key(provider)
  \/ \E provider \in Providers : connect_ai_service(provider)
  \/ \E provider \in Providers : disconnect_ai_service(provider)
  \/ \E provider \in AskedProviders : CallGetRemoteAdapter(provider)
  \/ \E model_name \in PoolNames : get_local_adapter(model_name)
  \/ clear
  \/ \E provider \in Providers : RequestSelects(provider)
  \/ RequestCompletes

SpecFactory == InitFactory /\ [][NextFactory]_vars

\* -------------------------------------------- remote adapters held in roles
\* A role of the router is given the adapter the factory holds for the
\* provider: the argument of IntentClassifier.set_adapter,
\* SecurityValidator.set_judge_adapter or PIIRedactor(...) is the instance
\* get_remote_adapter returns (router.py 114-138), kept as an attribute.
InstallRole(role, provider) ==
  /\ RemoteIdOf(fac, provider) # 0
  /\ fac' = [fac EXCEPT !.held = [role |-> role, provider |-> provider,
                                  ref |-> RemoteIdOf(fac, provider),
                                  invoked |-> ""]]
  /\ UNCHANGED <<remote_instances, local_pool>>
  /\ FactoryFrame

\* A request that starts now reaches the role and calls generate on the
\* adapter kept there (intent_classifier.py 101, security.py 71, 115):
\* the instance the factory's map holds for the provider, or another one.
RoleInvoked ==
  /\ fac.held.ref # 0
  /\ fac' = [fac EXCEPT !.held.invoked =
               IF fac.remote_id[fac.held.provider] = fac.held.ref
                 THEN "current" ELSE "old"]
  /\ UNCHANGED <<remote_instances, local_pool>>
  /\ FactoryFrame

InitRoles == InitFactory

NextRoles ==
  \/ initialize_remotes
  \/ reinitialize_remotes
  \/ \E provider \in Providers : connect_ai_service(provider)
  \/ \E provider \in Providers : disconnect_ai_service(provider)
  \/ \E role \in Roles, provider \in Providers : InstallRole(role, provider)
  \/ RoleInvoked
  \/ \E provider \in Providers : RequestSelects(provider)
  \/ RequestCompletes

SpecRoles == InitRoles /\ [][NextRoles]_vars

\* --------------------------------------------- the routing configuration
\* The values a role is given: a missing or empty entry, "auto" and a
\* registry id.
ConfigValues == {"", "auto", "claude-sonnet"}

\* The entries of the new_config given to update_config: a value, or
\* "unset" for a key the dictionary does not have.
NewConfigs == [Roles -> ConfigValues \cup {"unset"}]

\* self.routing_config.update(new_config) (router.py 93).
Updated(routing_config, new_config) ==
  [r \in Roles |-> IF new_config[r] = "unset" THEN routing_config[r]
                   ELSE new_config[r]]

\* _resolve_if_not_auto (router.py 59-63): no adapter for an empty value or
\* "auto", else _resolve_model_to_adapter.
_resolve_if_not_auto(val) ==
  IF val \in {"", "auto"}
    THEN [adapter |-> NoAdapter, api_model |-> "", pooled |-> {}]
    ELSE _resolve_model_to_adapter(val)

\* The positional parameters after self of IntentClassifier.set_adapter
\* (intent_classifier.py 73), SecurityValidator.set_judge_adapter
\* (security.py 12), PIIRedactor.__init__ and PIIRedactor.set_adapter
\* (security.py 92, 95).
SetterParameters == 1

\* The arguments _apply_routing_config passes to them: (adapter, api_model)
\* (router.py 69, 75, 84, 86).
SetterArguments == 2

\* The call raises TypeError: more arguments than parameters.
SetterRaises == SetterArguments > SetterParameters

\* The roles as _apply_routing_config finds them.
RolesNow ==
  [ca |-> classification_adapter, ja |-> judge_adapter, pii |-> pii_redactor,
   pooled |-> {}, raised |-> FALSE]

\* router.py 66-69: the classifier's entry.
ApplyClassifier(cfg, st) ==
  LET val == cfg["intent_classification"]
      r == _resolve_if_not_auto(val)
  IN IF val = "" THEN st
     ELSE IF SetterRaises
       THEN [st EXCEPT !.pooled = @ \cup r.pooled, !.raised = TRUE]
       ELSE [st EXCEPT !.pooled = @ \cup r.pooled, !.ca = r.adapter]

\* router.py 72-75: the judge's entry.
ApplyJudge(cfg, st) ==
  LET val == cfg["security_judge"]
      r == _resolve_if_not_auto(val)
  IN IF st.raised \/ val = "" \/ ~security_validator THEN st
     ELSE IF SetterRaises
       THEN [st EXCEPT !.pooled = @ \cup r.pooled, !.raised = TRUE]
       ELSE [st EXCEPT !.pooled = @ \cup r.pooled, !.ja = r.adapter]

\* router.py 78-88: the redactor's entry.
ApplyRedactor(cfg, st) ==
  LET val == cfg["pii_redactor"]
      r == _resolve_if_not_auto(val)
  IN IF st.raised \/ val = "" THEN st
     ELSE IF r.adapter = NoAdapter
       THEN [st EXCEPT !.pooled = @ \cup r.pooled,
                       !.pii = [present |-> FALSE, adapter |-> NoAdapter]]
     ELSE IF SetterRaises
       THEN [st EXCEPT !.pooled = @ \cup r.pooled, !.raised = TRUE]
       ELSE [st EXCEPT !.pooled = @ \cup r.pooled,
                       !.pii = [present |-> TRUE, adapter |-> r.adapter]]

\* ModelRouter._apply_routing_config on the configuration cfg: the roles
\* after it, the names pooled on the way and whether it raised.
_apply_routing_config(cfg) ==
  ApplyRedactor(cfg, ApplyJudge(cfg, ApplyClassifier(cfg, RolesNow)))

\* The variables no configuration call touches.
ConfigFrame ==
  UNCHANGED <<remote_instances, local_client, available_models, memory_system,
              security_validator, req_vars, chk, agent_store, rt, fac, cls,
              mem, vlt>>

\* The roles and the pool after _apply_routing_config(cfg).
RolesBecome(cfg) ==
  LET st == _apply_routing_config(cfg)
  IN /\ classification_adapter' = st.ca
     /\ judge_adapter' = st.ja
     /\ pii_redactor' = st.pii
     /\ local_pool' = local_pool \cup st.pooled

\* ModelRouter.update_config(new_config) (router.py 90-100): merge, write the
\* file and apply; an exception of the write or of the application is
\* logged.
update_config(new_config) ==
  LET merged == Updated(rc.routing_config, new_config)
  IN \/ /\ RolesBecome(merged)
        /\ rc' = [routing_config |-> merged, file |-> merged, applied |-> TRUE,
                  raised |-> "", op |-> "update_config"]
        /\ ConfigFrame
     \/ \* the file cannot be written
        /\ rc' = [rc EXCEPT !.routing_config = merged, !.applied = FALSE,
                            !.raised = "", !.op = "update_config"]
        /\ UNCHANGED <<classification_adapter, judge_adapter, pii_redactor,
                       local_pool>>
        /\ ConfigFrame

\* ModelRouter._load_routing_config() (router.py 42-54), called again by the
\* application's start-up (main.py 130): the file's content, or {} when it
\* cannot be read, is applied and an exception of the application
\* propagates.
_load_routing_config ==
  \E readable \in BOOLEAN :
    LET loaded == IF readable THEN rc.file ELSE [r \in Roles |-> ""]
    IN /\ RolesBecome(loaded)
       /\ rc' = [rc EXCEPT !.routing_config = loaded, !.applied = TRUE,
                           !.op = "_load_routing_config",
                           !.raised = IF _apply_routing_config(loaded).raised
                                        THEN "TypeError" ELSE ""]
       /\ ConfigFrame

\* A router whose roles were given adapters through the components' setters
\* and whose configuration file someone wrote.
InitConfig ==
  /\ remote_instances \in KeyedProviderSets
  /\ local_client = OllamaAdapter("default-model")
  /\ local_pool = {"default-model"}
  /\ available_models = <<>>
  /\ memory_system = FALSE
  /\ security_validator \in BOOLEAN
  /\ judge_adapter \in (IF security_validator
                          THEN {local_client} \cup (ConfiguredRoleAdapters \ {NoAdapter})
                          ELSE {NoAdapter})
  /\ classification_adapter \in ConfiguredRoleAdapters
  /\ pii_redactor \in {[present |-> FALSE, adapter |-> NoAdapter]} \cup
                       {[present |-> TRUE, adapter |-> a] : a \in ConfiguredRoleAdapters}
  /\ Idle
  /\ chk = NoCheck
  /\ agent_files = {}
  /\ agents_json = <<>>
  /\ rt = NoRetry
  /\ fac = NoFactory
  /\ cls = NoClassify
  /\ MemoryIdle
  /\ \E file \in [Roles -> {"", "auto"}] :
        rc = [NoConfig EXCEPT !.file = file]

NextConfig ==
  \/ \E new_config \in NewConfigs : update_config(new_config)
  \/ _load_routing_config

SpecConfig == InitConfig /\ [][NextConfig]_vars

\* --------------------------------------- classify_with_llm called directly
\* An empty or whitespace-only input: `not user_input.strip()`, for which
\* classify returns SPEED.
BlankText == [id |-> "blank", semantic |-> "speed", asks_secret |-> FALSE]

\* The inputs of the direct calls.
ClassifyTexts == Texts \cup {BlankText}

\* The confidences IntentClassifier.classify returns with the intent of a
\* text, in hundredths: 1.0 for a blank input, the best similarity when it
\* reaches the threshold (72 stands for it), 0.5 with the length
\* heuristic's SPEED or QUALITY.
classify_confidences(text) ==
  IF text = BlankText THEN {100}
  ELSE IF classify(text) \in {"speed", "quality"} THEN {50, 72} ELSE {72}

\* The calls of classify_with_llm made on one text.
ClassifyCalls == 2

\* The delegates a classifier is given with set_adapter.
ClassificationDelegates ==
  {NoAdapter, RemoteAdapter("anthropic"), RemoteAdapter("mistral")}
    \cup LocalClients

\* The outcomes of the delegate's generate call: a reply or an exception.
DelegateOutcomes(a) ==
  [outcome : {"ok"}, reply : DelegateReplies]
    \cup [outcome : GenerateRaises(a), reply : {<<>>}]

\* IntentClassifier.classify_with_llm(user_input): the intent and the
\* confidence (in hundredths) it returns, given the delegate's outcome and
\* the confidence score of the semantic path.
ClassifyWithLlm(user_input, a, out, score) ==
  IF a = NoAdapter
    THEN [intent |-> classify(user_input), confidence |-> score]
  ELSE IF out.outcome # "ok"
    THEN [intent |-> classify(user_input), confidence |-> score]
  ELSE IF \E k \in 1..Len(IntentOrder) : IntentOrder[k] \in Range(out.reply)
    THEN [intent |-> ParseReply(out.reply), confidence |-> 95]
  ELSE [intent |-> ParseReply(out.reply), confidence |-> 50]

InitClassify ==
  /\ remote_instances = {"anthropic", "mistral"}
  /\ local_client = OllamaAdapter("default-model")
  /\ local_pool = {"default-model"}
  /\ available_models = <<>>
  /\ memory_system = FALSE
  /\ security_validator = FALSE
  /\ judge_adapter = NoAdapter
  /\ pii_redactor = [present |-> FALSE, adapter |-> NoAdapter]
  /\ classification_adapter \in ClassificationDelegates
  /\ Idle
  /\ chk = NoCheck
  /\ agent_files = {}
  /\ agents_json = <<>>
  /\ rt = NoRetry
  /\ fac = NoFactory
  /\ rc = NoConfig
  /\ MemoryIdle
  /\ \E text \in ClassifyTexts : cls = [NoClassify EXCEPT !.pc = "call",
                                                          !.user_input = text]

\* One call of classify_with_llm on the classifier, with the delegate's
\* outcome if the delegate is called; the text is classified again with
\* the same delegate.
ClassifyWithLlmCall ==
  /\ cls.pc \in {"call", "returned"}
  /\ cls.calls < ClassifyCalls
  /\ \E out \in DelegateOutcomes(classification_adapter) \cup
                 [outcome : {""}, reply : {<<>>}],
        score \in classify_confidences(cls.user_input) :
       LET r == ClassifyWithLlm(cls.user_input, classification_adapter,
                                out, score)
       IN /\ (out.outcome = "") <=> (classification_adapter = NoAdapter)
          /\ cls' = [cls EXCEPT !.pc = "returned", !.reply = out.reply,
                                !.outcome = out.outcome,
                                !.intent = r.intent,
                                !.confidence = r.confidence,
                                !.calls = @ + 1,
                                !.previous = cls.intent]
  /\ UNCHANGED <<cfg_vars, req_vars, chk, agent_store, rt, fac, rc, mem, vlt>>

NextClassify == ClassifyWithLlmCall

SpecClassify == InitClassify /\ [][NextClassify]_vars

\* -------------------------------------------------------- the chat history
ValidSessions == {x \in MemorySessions : _validate_session_id(x)}

\* The turn given to the n-th call of save_chat_turn.
TurnOf(n) == Turn(IF n % 2 = 1 THEN "user" ELSE "assistant", n)

\* The callers whose save_chat_turn is suspended at one of its awaits.
InFlight == {c \in Callers : mem.calls[c].pc # "idle"}

\* history[-limit:] of Python: the last limit items, and the whole list
\* when limit is 0.
PySuffix(history, limit) ==
  IF limit = 0 THEN history
  ELSE SubSeq(history,
              IF Len(history) > limit THEN Len(history) - limit + 1 ELSE 1,
              Len(history))

\* MemorySystem.get_context(session_id, limit) on the files given.
get_context(files, session_id, limit) ==
  IF ~_validate_session_id(session_id) THEN <<>>
  ELSE PySuffix(files[session_id], limit)

\* The variables no call on the history touches.
MemoryFrame == UNCHANGED <<cfg_vars, req_vars, chk, agent_store, rt, fac, rc, cls, vlt>>

\* save_chat_turn(session_id, turn) up to its first await (memory.py
\* 126-135): an invalid id raises MemoryError, else the call is suspended
\* at the opening of the history file.
SaveStart(c, session_id) ==
  /\ mem.calls[c].pc = "idle"
  /\ mem.started < MaxTurns
  /\ IF _validate_session_id(session_id)
       THEN mem' = [mem EXCEPT
              !.started = @ + 1,
              !.overlapped = @ \/ InFlight # {},
              !.calls[c] = [pc |-> "read", session_id |-> session_id,
                           turn |-> mem.started + 1, history |-> <<>>]]
       ELSE mem' = [mem EXCEPT !.started = @ + 1, !.raised = TRUE]
  /\ MemoryFrame

\* memory.py 135-146: the file's content is read and the turn appended to
\* it; the call is suspended at the opening of the file for writing.
SaveRead(c) ==
  /\ mem.calls[c].pc = "read"
  /\ mem' = [mem EXCEPT
       !.calls[c].pc = "write",
       !.calls[c].history =
          Append(mem.files[mem.calls[c].session_id], TurnOf(mem.calls[c].turn))]
  /\ MemoryFrame

\* memory.py 148-157: the list read is written over the file and the call
\* returns; or the write or the long-term indexing that follows it raises
\* and the call ends with MemoryError.
SaveWrite(c) ==
  /\ mem.calls[c].pc = "write"
  /\ LET call == mem.calls[c] IN
     \E outcome \in {"ok", "open_fails", "write_fails", "index_fails"} :
       mem' = [mem EXCEPT
         !.calls[c] = NoSave,
         !.files[call.session_id] =
            CASE outcome \in {"ok", "index_fails"} -> call.history
              [] outcome = "write_fails" -> <<>>
              [] OTHER -> @,
         !.saved = IF outcome = "ok"
                     THEN Append(@, [session_id |-> call.session_id,
                                     turn |-> TurnOf(call.turn)])
                     ELSE @,
         !.raised = @ \/ outcome # "ok"]
  /\ MemoryFrame

\* One call of get_context(session_id, limit), with the calls of
\* save_chat_turn that had returned when it was made.
GetContext(session_id, limit) ==
  /\ mem' = [mem EXCEPT !.got =
       [pc |-> "returned", session_id |-> session_id, limit |-> limit,
        result |-> get_context(mem.files, session_id, limit),
        saved |-> mem.saved,
        sequential |-> ~mem.overlapped /\ ~mem.raised /\ InFlight = {}]]
  /\ MemoryFrame

InitMemory ==
  /\ remote_instances = {}
  /\ local_client = OllamaAdapter("default-model")
  /\ local_pool = {"default-model"}
  /\ available_models = <<>>
  /\ memory_system = TRUE
  /\ security_validator = FALSE
  /\ judge_adapter = NoAdapter
  /\ pii_redactor = [present |-> FALSE, adapter |-> NoAdapter]
  /\ classification_adapter = NoAdapter
  /\ Idle
  /\ chk = NoCheck
  /\ agent_files = {}
  /\ agents_json = <<>>
  /\ rt = NoRetry
  /\ fac = NoFactory
  /\ rc = NoConfig
  /\ cls = NoClassify
  /\ MemoryIdle

NextMemory ==
  \/ \E c \in Callers, session_id \in MemorySessions : SaveStart(c, session_id)
  \/ \E c \in Callers : SaveRead(c)
  \/ \E c \in Callers : SaveWrite(c)
  \/ \E session_id \in MemorySessions, limit \in 0..MaxLimit :
       GetContext(session_id, limit)

SpecMemory == InitMemory /\ [][NextMemory]_vars

\* ---------------------------------------------------------------- the vault
\* The hours after which is_vault_locked locks an unlocked vault
\* (`elapsed > 6 * 3600`).
AUTOLOCK_HOURS == 6

VaultKeys == {"secret", "note"}

\* An auto-lock that never happens.
ExpiresNever(v) == FALSE

\* memory.py 69-72: more than six hours have passed since the unlock.
Expired(v) ==
  v.last_unlock_time # <<>> /\ v.now - v.last_unlock_time[1] > AUTOLOCK_HOURS

\* MemorySystem.lock_vault on the vault v.
LockVault(v) == [v EXCEPT !.vault_fernet = FALSE, !.last_unlock_time = <<>>]

\* MemorySystem.is_vault_locked on the vault v: what it returns and the
\* vault it leaves (it locks an expired vault).
is_vault_locked(v) ==
  IF ~v.vault_fernet THEN [locked |-> TRUE, after |-> v]
  ELSE IF Expired(v) THEN [locked |-> TRUE, after |-> LockVault(v)]
  ELSE [locked |-> FALSE, after |-> v]

\* The vault is locked as its callers understand it: no unlock_vault
\* succeeded since construction or since the last lock_vault or
\* destroy_vault, or more than six hours passed since the last one.
StatedLocked(v) ==
  v.unlocked_at = <<>> \/ v.now - v.unlocked_at[1] > AUTOLOCK_HOURS

\* The variables no call on the vault touches.
VaultFrame == UNCHANGED <<cfg_vars, req_vars, chk, agent_store, rt, fac, rc, cls, mem>>

\* An hour passes.
Tick ==
  /\ vlt.now < MaxClock
  /\ vlt' = [vlt EXCEPT !.now = @ + 1]
  /\ VaultFrame

\* MemorySystem.unlock_vault(password): the key is derived and kept, or
\* the salt file cannot be read or written and the call returns False.
unlock_vault ==
  /\ \E ok \in BOOLEAN :
       vlt' = IF ok
                THEN [vlt EXCEPT !.vault_fernet = TRUE,
                                 !.last_unlock_time = <<vlt.now>>,
                                 !.salt = TRUE,
                                 !.unlocked_at = <<vlt.now>>]
                ELSE vlt
  /\ VaultFrame

lock_vault ==
  /\ vlt' = [LockVault(vlt) EXCEPT !.unlocked_at = <<>>]
  /\ VaultFrame

\* MemorySystem.destroy_vault: lock, remove the salt and every vault file.
destroy_vault ==
  /\ vlt' = [LockVault(vlt) EXCEPT !.salt = FALSE, !.files = {},
                                   !.unlocked_at = <<>>]
  /\ VaultFrame

\* save_to_vault(key, data) and get_from_vault(key) up to their first
\* await (memory.py 180-186, 197-204): MemoryError on a locked vault, None
\* for a key without a file, MemoryError if the data cannot be encrypted,
\* else the call is suspended at the opening of the vault file.
VaultCallStart(op, key) ==
  /\ vlt.call.pc # "suspended"
  /\ LET l == is_vault_locked(vlt)
         ended(outcome) == [pc |-> "returned", op |-> op, key |-> key,
                            locked |-> StatedLocked(vlt),
                            outcome |-> outcome, wrote |-> FALSE]
     IN IF l.locked
          THEN vlt' = [l.after EXCEPT !.call = ended("MemoryError")]
        ELSE IF op = "get_from_vault" /\ key \notin vlt.files
          THEN vlt' = [vlt EXCEPT !.call = ended("None")]
        ELSE \/ vlt' = [vlt EXCEPT !.call = [ended("") EXCEPT !.pc = "suspended"]]
             \/ /\ op = "save_to_vault"
                /\ vlt' = [vlt EXCEPT !.call = ended("MemoryError")]
  /\ VaultFrame

\* The rest of the call (memory.py 186-190, 204-209): the encrypted data is
\* written, or the file is read and decrypted with the key the vault holds
\* then; every exception becomes MemoryError.
VaultCallEnd ==
  /\ vlt.call.pc = "suspended"
  /\ \E outcome \in {"ok", "MemoryError"} :
       /\ (vlt.call.op = "get_from_vault"
             /\ (~vlt.vault_fernet \/ vlt.call.key \notin vlt.files))
            => outcome = "MemoryError"
       /\ vlt' = [vlt EXCEPT
            !.call.pc = "returned",
            !.call.outcome = outcome,
            !.call.wrote = vlt.call.op = "save_to_vault" /\ outcome = "ok",
            !.files = IF vlt.call.op = "save_to_vault" /\ outcome = "ok"
                        THEN @ \cup {vlt.call.key} ELSE @]
  /\ VaultFrame

InitVault == InitMemory

NextVault ==
  \/ Tick
  \/ unlock_vault
  \/ lock_vault
  \/ destroy_vault
  \/ \E op \in {"save_to_vault", "get_from_vault"}, key \in VaultKeys :
       VaultCallStart(op, key)
  \/ VaultCallEnd

SpecVault == InitVault /\ [][NextVault]_vars

\* ------------------------------------------- check_output called directly
\* The judge adapters a SecurityValidator is constructed with.
Judges == {NoAdapter, RemoteAdapter("anthropic")} \cup LocalClients

\* A SecurityValidator(judge_adapter) and the arguments of one check_output
\* call: whether the prompt asks for a password or secret, and the output.
InitCheckOutput ==
  /\ remote_instances = {"anthropic", "mistral"}
  /\ local_client = OllamaAdapter("default-model")
  /\ local_pool = {"default-model"}
  /\ available_models = <<>>
  /\ memory_system = FALSE
  /\ security_validator = TRUE
  /\ judge_adapter \in Judges
  /\ classification_adapter = NoAdapter
  /\ pii_redactor = [present |-> FALSE, adapter |-> NoAdapter]
  /\ Idle
  /\ \E asks_secret \in BOOLEAN, body \in Bodies :
       chk = [NoCheck EXCEPT !.pc = "call", !.asks_secret = asks_secret,
                             !.body = body]
  /\ agent_files = {}
  /\ agents_json = <<>>
  /\ AuxIdle

\* SecurityValidator.check_output(original_prompt, model_output) with the
\* judge's outcome, if the judge is called.
CheckOutputCall ==
  /\ chk.pc = "call"
  /\ \E outcome \in JudgeOutcomes(judge_adapter) :
       LET consulted == JudgeConsulted(Layer1(chk.asks_secret, chk.body),
                                       judge_adapter)
       IN /\ ~consulted => outcome = "safe"
          /\ chk' = [chk EXCEPT
               !.pc = "returned",
               !.outcome = IF consulted THEN outcome ELSE "",
               !.judge_called = consulted,
               !.verdict = check_output(chk.asks_secret, chk.body,
                                        judge_adapter, outcome)]
  /\ UNCHANGED <<cfg_vars, req_vars, agent_store, aux_vars>>

NextCheckOutput == CheckOutputCall

SpecCheckOutput == InitCheckOutput /\ [][NextCheckOutput]_vars

\* ------------------------------------------------------------- properties
\* The positions in the trace of the calls that generate the answer.
AnswerCalls ==
  {i \in 1..Len(trace) : trace[i].role \in {"answer", "fallback"}}

\* The positions in the trace of the calls of the operation ev.
Calls(ev) == {i \in 1..Len(trace) : trace[i].ev = ev}

\* The handler has ended by returning a response or yielding its item.
Responded == pc = "done" /\ result.kind \in {"return", "yield"}

\* C1: in a request classified PRIVATE or NSFW, whatever model_id the caller
\* gave, every call that generates the answer is made on a local adapter
\* obtained from AdapterFactory.get_local_adapter (it is in the factory's
\* pool), never on a remote adapter, and the request takes the privacy branch.
C1_PrivateAnswerIsLocal ==
  intent \in {"private", "nsfw"} =>
    /\ \A i \in AnswerCalls :
         /\ IsLocal(trace[i].adapter)
         /\ ~IsRemote(trace[i].adapter)
         /\ trace[i].adapter.name \in local_pool
    /\ pc \in {"generate", "security", "redact", "persist", "done"} =>
         /\ path = "privacy"
         /\ IsLocal(adapter)
         /\ adapter.name \in local_pool

\* A PRIVATE or NSFW request that names a remote model whose provider is
\* configured has been answered.
C1_Witness ==
  /\ Responded
  /\ intent \in {"private", "nsfw"}
  /\ req.model_id = "claude-sonnet"
  /\ "anthropic" \in remote_instances
  /\ AnswerCalls # {}

\* C2: on the privacy path (intent PRIVATE or NSFW, or mode_id "private"),
\* in both handlers, neither check_output nor redact is invoked, and the
\* response reports requires_privacy = true and, where it carries a verdict,
\* is_safe = true.
C2_PrivacyPathSkipsChecks ==
  path = "privacy" =>
    /\ Calls("check_output") = {}
    /\ Calls("redact") = {}
    /\ Responded =>
         /\ result.requires_privacy
         /\ result.kind = "return" =>
              result.security.present /\ result.security.is_safe

\* C3: the text of a request classified PRIVATE or NSFW is never passed to
\* the generate call of a remote adapter, in any role.
C3_PrivateTextStaysLocal ==
  intent \in {"private", "nsfw"} =>
    \A i \in Calls("generate") \cup Calls("generate_stream") :
      trace[i].user_text => ~IsRemote(trace[i].adapter)

\* C4: once the security check has returned is_safe = false, the answer is
\* the block message built from the verdict's reason, and that message, none
\* of the generated output, is what the handler returns or yields.
C4_UnsafeVerdictBlocks ==
  (security_verdict.checked /\ ~security_verdict.is_safe) =>
    /\ answer.kind = "block"
    /\ answer.body = "security_block"
    /\ answer.reason = security_verdict.reason
    /\ answer.by = NoAdapter
    /\ Responded =>
         /\ result.answer = answer
         /\ result.answer.kind # "generated"

\* A generated output was found unsafe and the handler has responded.
C4_Witness ==
  /\ Responded
  /\ security_verdict.checked
  /\ ~security_verdict.is_safe
  /\ \E i \in Calls("check_output") : trace[i].arg.kind = "generated"

\* C5: redact is invoked only once the request's verdict says is_safe = true,
\* after the security check if it ran; after an unsafe verdict redact is
\* never invoked.
C5_RedactOnlyAfterSafeVerdict ==
  /\ \A i \in Calls("redact") :
       /\ security_verdict # NoVerdict
       /\ security_verdict.is_safe
       /\ \A j \in Calls("check_output") : j < i
  /\ (security_verdict.checked /\ ~security_verdict.is_safe) =>
       Calls("redact") = {}

\* The security check passed an output, and redact was invoked on it.
C5_Witness ==
  /\ Responded
  /\ security_verdict.checked
  /\ security_verdict.is_safe
  /\ Calls("check_output") # {}
  /\ Calls("redact") # {}

\* C6: when the output matches a layer-1 heuristic, check_output returns
\* is_safe = false whatever judge is configured, and does not invoke the
\* judge's generate.
C6_Layer1FailsClosed ==
  (chk.pc = "returned" /\ ~Layer1(chk.asks_secret, chk.body).is_safe) =>
    /\ ~chk.verdict.is_safe
    /\ chk.verdict = Layer1(chk.asks_secret, chk.body)
    /\ ~chk.judge_called

\* check_output returned for an output that matches a layer-1 heuristic, with
\* a judge configured.
C6_Witness ==
  /\ chk.pc = "returned"
  /\ HasDangerousPattern(chk.body) \/ (HasCredentialWord(chk.body) /\ chk.asks_secret)
  /\ ~Layer1(chk.asks_secret, chk.body).is_safe
  /\ judge_adapter # NoAdapter

\* C7: when the judge raises, or replies with a text that is not a verdict,
\* check_output returns exactly the layer-1 result: the error turns no safe
\* layer-1 result into unsafe.
C7_JudgeErrorFailsOpen ==
  (/\ chk.pc = "returned"
   /\ chk.judge_called
   /\ chk.outcome \in {"unparseable", "AdapterError", "Exception"}) =>
    /\ chk.verdict = Layer1(chk.asks_secret, chk.body)
    /\ chk.verdict.is_safe

\* check_output returned after its judge raised.
C7_Witness ==
  /\ chk.pc = "returned"
  /\ chk.judge_called
  /\ chk.outcome = "Exception"
  /\ chk.verdict.is_safe

\* The primary generate call of the request raised.
PrimaryRaised ==
  \E i \in Calls("generate") : trace[i].role = "answer" /\ trace[i].outcome # "ok"

\* The fallback generate call of the request raised.
FallbackRaised ==
  \E i \in Calls("generate") : trace[i].role = "fallback" /\ trace[i].outcome # "ok"

\* C8: when the primary adapter's generate raises, route_request calls the
\* local default adapter's generate exactly once, does not let the exception
\* out, and reports the adapter name with the fallback marker in front.
C8_PrimaryFailureFallsBack ==
  (api = "route_request" /\ pc = "done" /\ PrimaryRaised) =>
    /\ Cardinality({i \in AnswerCalls : trace[i].role = "fallback"}) = 1
    /\ \A i \in AnswerCalls :
         trace[i].role = "fallback" => trace[i].adapter = local_client
    /\ adapter_name.prefix = "fallback-"
    /\ result.kind = "return" \/ result.exc = "MemoryError"

C10_NoBackendExceptionEscapes ==
  pc = "done" =>
    \/ result.kind \in {"return", "yield"}
    \/ result.exc \notin {"AdapterError", "Exception"}

\* C11: a failure of the memory while loading the context or saving the turn
\* pair never makes route_request raise: the handler ends by returning the
\* response, on the privacy path, the CREATE_AGENT path and the normal path.
C11_MemoryFailureNeverRaises ==
  (pc = "done" /\ api = "route_request") =>
    ~(result.kind = "raise" /\ result.exc = "MemoryError")

\* The stage a call belongs to: 1 classify, 2 generate, 3 security check,
\* 4 redaction, 5 persist, 0 for a call that belongs to no stage.
StageOf(e) ==
  CASE e.role = "classify" -> 1
    [] e.role \in {"answer", "fallback"} -> 2
    [] e.ev = "check_output" \/ e.role = "judge" -> 3
    [] e.ev = "redact" \/ e.role = "redact" -> 4
    [] e.ev = "save_chat_turn" -> 5
    [] OTHER -> 0

C13_PersistedIsReturned ==
  (Responded /\ api = "route_request") =>
    \A k \in 1..Len(saved) :
      saved[k].role = "assistant" =>
        /\ saved[k].content = result.answer
        /\ path \in {"manual", "intent"} =>
             /\ saved[k].content.cleaned
             /\ (security_verdict.checked /\ ~security_verdict.is_safe) =>
                  saved[k].content.kind = "block"

\* The primary generate call on a local adapter timed out: OllamaAdapter
\* returned its "[LOCAL ERROR] ... timed out" text, and that text is the
\* answer entering the security stage with no fallback taken.
LocalPrimaryTimedOut ==
  /\ pc = "security"
  /\ answer.kind = "generated"
  /\ answer.body = "local_error"
  /\ \A i \in AnswerCalls : trace[i].role = "answer"

\* C14: a generate call that times out is handled like a generation failure,
\* for a local and for a remote primary, in both handlers: the request takes
\* the fallback to the local default adapter, the adapter name carries the
\* fallback marker, and no exception leaves the handler.
C14_TimeoutTakesFallback ==
  /\ LocalPrimaryTimedOut => adapter_name.prefix = "fallback-"
  /\ (pc = "done" /\ PrimaryRaised) =>
       /\ adapter_name.prefix = "fallback-"
       /\ result.kind \in {"return", "yield"} \/ result.exc = "MemoryError"
\* C15: for the same classified intent, model_id, mode_id, installed local
\* models and configured providers, route_request_stream selects the same
\* adapter as route_request and reports the same adapter name and the same
\* intent in its routing metadata.
C15_StreamSelectsLikeRouteRequest ==
  (pc = "route" /\ ~PrivacyPath /\ intent # "create_agent") =>
    /\ SelectStream.adapter = SelectRouteRequest.adapter
    /\ SelectStream.adapter_name = SelectRouteRequest.adapter_name
    /\ SelectStream.meta_intent = SelectRouteRequest.meta_intent

\* C16: route_request_stream yields exactly one (text, routing metadata)
\* item per request, and when the adapter streams nothing is yielded before
\* the chunks are assembled and the assembled text has passed the security
\* check and the redaction.
C16_StreamYieldsOneProcessedItem ==
  api = "route_request_stream" =>
    /\ pc # "done" => result.kind = "none"
    /\ pc = "done" => result.kind = "yield"
    /\ (result.kind = "yield" /\ Calls("generate_stream") # {}) =>
         /\ result.answer.cleaned
         /\ security_verdict # NoVerdict
         /\ \A i \in Calls("check_output") \cup Calls("redact") :
              \A j \in Calls("generate_stream") : j < i

\* The local model route_request picks for CODING: the first installed
\* model with a coding keyword, or the default coding model.
CodingModel ==
  _find_best_local_model(<<"deepseek-coder", "codellama", "qwen-coder", "code">>,
                         "codellama:7b-instruct", available_models)

\* C17: with no model_id and outside the privacy path, route_request selects
\* a remote adapter only for QUALITY (anthropic, when configured) and SPEED
\* (mistral, when configured); CODING goes to a local coding model of the
\* pool, FINANCE and every other dispatched intent to local_client under the
\* name local-default.
C17_IntentDefaults ==
  (api = "route_request" /\ path = "intent" /\ pc = "generate") =>
    /\ IsRemote(adapter) =>
         \/ /\ intent = "quality"
            /\ adapter = RemoteAdapter("anthropic")
            /\ "anthropic" \in remote_instances
         \/ /\ intent = "speed"
            /\ adapter = RemoteAdapter("mistral")
            /\ "mistral" \in remote_instances
    /\ intent = "coding" =>
         /\ adapter = OllamaAdapter(CodingModel)
         /\ adapter.name \in local_pool
         /\ adapter_name = Name(CodingModel)
    /\ intent \notin {"quality", "speed", "coding"} =>
         /\ adapter = local_client
         /\ adapter_name = Name("local-default")

\* A QUALITY request with a Mistral key and no Anthropic key was dispatched
\* to a local model.
C17_Witness ==
  /\ api = "route_request" /\ path = "intent" /\ pc = "generate"
  /\ intent = "quality"
  /\ remote_instances = {"mistral"}
  /\ adapter.kind = "ollama"

\* C18: with an explicit model_id outside the privacy path, the router
\* generates with the remote adapter of the provider the model registry maps
\* the id to, passing the registry's API model id as override; in every
\* other case (id unknown to the registry, or its provider not configured)
\* the adapter is get_local_adapter(model_id) and the reported adapter name
\* is the model_id.
C18_ModelIdResolution ==
  (api = "route_request" /\ path = "manual" /\ pc = "generate") =>
    LET reg == get_provider_and_api_model(req.model_id)
    IN IF reg.provider # "" /\ reg.provider \in remote_instances
         THEN /\ adapter = RemoteAdapter(reg.provider)
              /\ model_override = reg.api_model
         ELSE /\ adapter = OllamaAdapter(req.model_id)
              /\ req.model_id \in local_pool
              /\ adapter_name = Name(req.model_id)

\* The position in adapters_to_try of the candidate adapter a.
CandidateIndex(a) ==
  CHOOSE j \in 1..Len(AdaptersToTry) : AdaptersToTry[j].adapter = a

\* C19: on a CREATE_AGENT request the collaborator is called with the
\* candidates in the order anthropic, mistral, local default, absent ones
\* skipped; after every call that did not succeed, raised or returned
\* success = false, the next candidate is called, and the loop stops only at
\* the first successful call or when all candidates have been tried.
C19_AgentCandidatesInOrder ==
  path = "agent" =>
    LET calls == Calls("generate_and_register_agent")
        present == {j \in 1..Len(AdaptersToTry) :
                      AdaptersToTry[j].adapter # NoAdapter}
    IN /\ \A i, j \in calls :
            i < j => CandidateIndex(trace[i].adapter) < CandidateIndex(trace[j].adapter)
       /\ \A i \in calls :
            \A k \in present :
              k < CandidateIndex(trace[i].adapter) =>
                \E h \in calls : h < i /\ CandidateIndex(trace[h].adapter) = k
       /\ pc = "done" =>
            \/ agent.success
            \/ Cardinality(calls) = Cardinality(present)

\* C20: every call the router makes to generate_and_register_agent is a dry
\* run: no step of route_request or route_request_stream writes an agent
\* file or adds a registry entry, whatever generation and validation
\* return; the agent store changes only by the register operation.
C20_RouterNeverRegisters ==
  [][register_agent_code \/ UNCHANGED agent_store]_vars

\* A CREATE_AGENT request ended with valid generated code returned for
\* review and nothing written to the agent store.
C20_Witness ==
  /\ pc = "done"
  /\ path = "agent"
  /\ agent.success
  /\ result.agent_generated
  /\ Calls("generate_and_register_agent") # {}
  /\ agent_files = {}
  /\ agents_json = <<>>

\* The retry-wrapped call has ended.
RetryEnded == rt.pc \in {"returned", "raised"}

\* The wrapped function raises a declared exception on its first k
\* invocations and returns on the next.
FailsThenSucceeds(k) ==
  /\ \A i \in 1..k : rt.plan[i] = "declared"
  /\ rt.plan[k + 1] = "ok"

\* C21: a retry-wrapped call that raises a declared exception on its first
\* k attempts (k < N) and then succeeds returns the success value, and the
\* wrapped function has been invoked exactly k + 1 times.
C21_RetrySucceedsAfterFailures ==
  RetryEnded =>
    \A k \in 0..MaxTries :
      (k < rt.tries /\ FailsThenSucceeds(k)) =>
        /\ rt.pc = "returned"
        /\ rt.result = "value"
        /\ rt.calls = k + 1

\* A call with three tries failed twice, succeeded on the third attempt and
\* returned.
C21_Witness ==
  /\ rt.pc = "returned"
  /\ rt.tries = 3
  /\ FailsThenSucceeds(2)
  /\ rt.calls = 3

\* The number of invocations retry allows: tries, and one when tries is 1
\* or less.
AttemptsAllowed == IF rt.tries > 1 THEN rt.tries ELSE 1

\* C22: a retry-wrapped call that raises a declared exception on every
\* attempt is invoked exactly N times (once when N is 1 or less), never
\* more, and the exception of the last attempt propagates to the caller.
C22_RetryExhausted ==
  /\ rt.calls <= AttemptsAllowed
  /\ (RetryEnded /\ \A i \in 1..rt.calls : rt.plan[i] = "declared") =>
       /\ rt.calls = AttemptsAllowed
       /\ rt.pc = "raised"
       /\ rt.result = rt.plan[rt.calls]

\* Three tries, three declared failures, the third one raised to the caller
\* after two waits.
C22_Witness ==
  /\ rt.pc = "raised"
  /\ rt.tries = 3
  /\ rt.calls = 3
  /\ \A i \in 1..3 : rt.plan[i] = "declared"
  /\ Len(rt.waits) = 2

\* C23: an exception outside the declared set is not retried: it propagates
\* to the caller after that single attempt, with no wait and no further
\* invocation of the wrapped function.
C23_UndeclaredNotRetried ==
  \A i \in 1..rt.calls :
    rt.plan[i] = "other" =>
      /\ rt.calls = i
      /\ rt.pc = "raised"
      /\ rt.result = "other"
      /\ Len(rt.waits) = i - 1

\* With tries left, the second attempt raised an undeclared exception and
\* the call ended there.
C23_Witness ==
  /\ rt.pc = "raised"
  /\ rt.tries = 3
  /\ rt.calls = 2
  /\ rt.plan[1] = "declared"
  /\ rt.plan[2] = "other"
  /\ Len(rt.waits) = 1

\* C24: after any sequence of get_local_adapter calls with no clear in
\* between, calls with the same model name returned the same instance and
\* calls with different names different instances; the local pool holds
\* exactly one adapter per name requested.
C24_LocalPoolOnePerName ==
  /\ \A n \in PoolNames :
       /\ Cardinality(fac.returned[n]) <= 1
       /\ fac.returned[n] # {} => fac.returned[n] = {fac.local_id[n]}
  /\ \A n, m \in PoolNames : n # m => fac.returned[n] \cap fac.returned[m] = {}
  /\ local_pool = {n \in PoolNames : fac.returned[n] # {}}
  /\ \A n \in PoolNames : n \in local_pool <=> fac.local_id[n] # 0

\* Both names were requested, the last call returned the instance already
\* pooled for its name, and the two instances differ.
C24_Witness ==
  /\ local_pool = PoolNames
  /\ fac.last.op = "get_local_adapter"
  /\ fac.last.constructed = 0
  /\ fac.last.result = fac.local_id[fac.last.arg]
  /\ fac.local_id["llama3"] # fac.local_id["mistral"]

\* C25: reinitialize_remotes replaces the remote map as a whole.  A request
\* running concurrently never finds absent a provider that had a usable key
\* at the last build and has one now; a reference obtained before the call
\* stays a live instance until its holder completes; and a request that has
\* selected since the last change of the map holds the instance the map
\* holds.
C25_RebuildIsAtomic ==
  /\ (fac.task.pc # "idle" /\ fac.task.key_stable) => fac.task.ref # 0
  /\ (fac.task.pc = "holding" /\ fac.task.ref # 0) =>
       fac.task.ref \in 1..fac.next_id
  /\ (fac.task.pc = "holding" /\ ~fac.task.stale) =>
       fac.task.ref = RemoteIdOf(fac, fac.task.provider)

\* A request still holds the adapter it obtained before a
\* reinitialize_remotes call that put a new instance in the map.
C25_Witness ==
  /\ fac.task.pc = "holding"
  /\ fac.task.key_stable
  /\ fac.task.stale
  /\ fac.task.ref # 0
  /\ fac.last.op = "reinitialize_remotes"
  /\ RemoteIdOf(fac, fac.task.provider) \notin {0, fac.task.ref}

\* C26: after initialize_remotes or reinitialize_remotes,
\* get_remote_adapter(provider) returns an adapter exactly when, at that
\* (re)initialization, a key for the provider existed and the adapter's
\* client was constructed; otherwise, and for unknown providers, it returns
\* absent.
C26_RemotePresentIffKeyed ==
  fac._initialized =>
    /\ \A provider \in AskedProviders :
         RemoteIdOf(fac, provider) # 0 <=> Lower(provider) \in fac.init_keys
    /\ fac.last.op = "get_remote_adapter" =>
         /\ fac.last.result = RemoteIdOf(fac, fac.last.arg)
         /\ fac.last.result # 0 <=> Lower(fac.last.arg) \in fac.init_keys
         /\ fac.last.arg = "openai" => fac.last.result = 0

\* On an initialized factory a provider with a key whose client package is
\* missing was asked for and found absent.
C26_Witness ==
  /\ fac._initialized
  /\ fac.last.op = "get_remote_adapter"
  /\ fac.last.arg = "mistral"
  /\ _get_provider_key(fac, "mistral")
  /\ "openai" \notin fac.packages
  /\ fac.last.result = 0
  /\ remote_instances = {"anthropic"}

\* C27: initialize_remotes is idempotent: a call on an initialized factory
\* constructs no adapter and leaves the remote map and every instance in it
\* unchanged.
C27_InitializeIdempotent ==
  [][(fac._initialized /\ initialize_remotes) =>
       /\ fac'.remote_id = fac.remote_id
       /\ fac'.next_id = fac.next_id
       /\ fac'.last.constructed = 0
       /\ remote_instances' = remote_instances]_vars

\* initialize_remotes was called on a factory that already held an adapter
\* and constructed nothing.
C27_Witness ==
  /\ fac._initialized
  /\ fac.last.op = "initialize_remotes"
  /\ fac.last.constructed = 0
  /\ remote_instances # {}

\* The role has no adapter override: no classification delegate, no
\* configured judge other than the one the validator was constructed with,
\* no PII redactor.
NoOverride(role) ==
  CASE role = "intent_classification" -> classification_adapter = NoAdapter
    [] role = "security_judge" -> judge_adapter \in {NoAdapter, local_client}
    [] OTHER -> ~pii_redactor.present

\* C28: after a routing configuration is applied in which a role is "auto"
\* or absent, that role has no adapter override, whatever override was
\* installed before.
C28_AutoClearsOverride ==
  rc.applied =>
    \A role \in Roles :
      rc.routing_config[role] \in {"", "auto"} => NoOverride(role)

\* A direct call of classify_with_llm returned after its delegate replied.
DelegateReplied ==
  cls.pc = "returned" /\ classification_adapter # NoAdapter /\ cls.outcome = "ok"

\* C29: when the delegate's reply names more than one category,
\* classify_with_llm returns the category whose name comes first in the
\* reply.
C29_FirstNameInReply ==
  (DelegateReplied /\ Len(cls.reply) > 1) => cls.intent = cls.reply[1]

\* C30: when the delegate's reply contains no category name,
\* classify_with_llm returns the intent of the semantic path
\* classify(text) with one of its confidences.
C30_NoNameFallsBackToSemantic ==
  (DelegateReplied /\ cls.reply = <<>>) =>
    /\ cls.intent = classify(cls.user_input)
    /\ cls.confidence \in classify_confidences(cls.user_input)

\* C31: a blank input is classified SPEED with confidence 1.0 and no
\* delegate is called for it, also when a delegate is configured.
C31_BlankIsSpeedWithoutBackend ==
  (cls.pc = "returned" /\ cls.user_input = BlankText) =>
    /\ cls.intent = "speed"
    /\ cls.confidence = 100
    /\ cls.outcome = ""

\* C32: a text containing a fast-path keyword ("password", "secret") is
\* classified with the intent of that keyword's list, PRIVATE, whatever the
\* delegate replies.
C32_KeywordShortCircuits ==
  (cls.pc = "returned" /\ cls.user_input.asks_secret) => cls.intent = "private"

\* C33: the second classification of a text, with the same delegate
\* configured, returns the intent of the first.
C33_SameTextSameIntent ==
  cls.calls = ClassifyCalls => cls.intent = cls.previous

\* C34: a redact call made with no redactor adapter calls no backend and
\* returns its input, a call whose adapter raises returns its input too,
\* and the handler goes on without an exception.
C34_RedactPassesThrough ==
  [][(pc = "redact" /\ RedactionRuns
        /\ (pii_redactor.adapter = NoAdapter
              \/ trace'[Len(trace')].outcome # "ok"))
       => (/\ ~answer'.redacted
           /\ pc' \in {"persist", "done"}
           /\ result'.kind # "raise"
           /\ pii_redactor.adapter = NoAdapter
                => Len(trace') = Len(trace) + 1)]_vars

C34_Witness ==
  /\ Responded
  /\ ~answer.redacted
  /\ \E i \in 1..Len(trace) :
        /\ trace[i].ev = "generate"
        /\ trace[i].role = "redact"
        /\ trace[i].outcome # "ok"

\* The turns of the calls in saved made for the session, in that order.
RECURSIVE TurnsOf(_, _)
TurnsOf(returned, session_id) ==
  IF returned = <<>> THEN <<>>
  ELSE IF returned[1].session_id = session_id
    THEN <<returned[1].turn>> \o TurnsOf(Tail(returned), session_id)
    ELSE TurnsOf(Tail(returned), session_id)

\* The last n items of a sequence.
LastOf(seq, n) ==
  SubSeq(seq, IF Len(seq) > n THEN Len(seq) - n + 1 ELSE 1,
         IF n = 0 THEN 0 ELSE Len(seq))

\* C35: after successful save_chat_turn calls made one after another,
\* get_context(session, limit) returns the last `limit` turns saved for
\* that session, in the order they were saved.
C35_ContextIsLastTurns ==
  (mem.got.pc = "returned" /\ mem.got.sequential) =>
    mem.got.result = LastOf(TurnsOf(mem.got.saved, mem.got.session_id),
                            mem.got.limit)

\* C40: when no call of save_chat_turn failed, the turn of every call that
\* returned is in the history file of its session, also when the calls
\* overlapped.
C40_NoSavedTurnLost ==
  ~mem.raised =>
    \A i \in 1..Len(mem.saved) :
      mem.saved[i].turn \in Range(mem.files[mem.saved[i].session_id])

C37_JudgeDecidesAfterLayer1 ==
  chk.pc = "returned" =>
    LET layer1 == Layer1(chk.asks_secret, chk.body) IN
    /\ chk.judge_called <=> (layer1.is_safe /\ judge_adapter # NoAdapter)
    /\ (chk.judge_called /\ chk.outcome = "unsafe_reason") =>
         chk.verdict = [is_safe |-> FALSE, reason |-> "judge_reason"]
    /\ (chk.judge_called /\ chk.outcome = "unsafe_bare") => ~chk.verdict.is_safe
    /\ (chk.judge_called /\ chk.outcome = "safe") =>
         (chk.verdict.is_safe /\ chk.verdict = layer1)

\* check_output returned after its judge replied UNSAFE with a reason.
C37_Witness ==
  /\ chk.pc = "returned"
  /\ chk.judge_called
  /\ chk.outcome = "unsafe_reason"
  /\ chk.verdict.reason = "judge_reason"

\* C38: a request that starts after reinitialize_remotes removed or
\* replaced a provider's adapter invokes the old instance in no role: the
\* adapter a role calls is the one the factory holds, and the reference a
\* request selects for its answer is the one in the map.
C38_NoOldInstanceInvoked ==
  /\ fac.held.invoked # "old"
  /\ (fac.task.pc = "holding" /\ ~fac.task.stale) =>
       fac.task.ref = fac.remote_id[fac.task.provider]

\* The adapters of the three roles are those the configuration cfg names.
RolesDescribe(cfg) ==
  LET ca == _resolve_if_not_auto(cfg["intent_classification"]).adapter
      ja == _resolve_if_not_auto(cfg["security_judge"]).adapter
      pa == _resolve_if_not_auto(cfg["pii_redactor"]).adapter
  IN /\ classification_adapter = ca
     /\ security_validator =>
          IF ja = NoAdapter THEN NoOverride("security_judge")
          ELSE judge_adapter = ja
     /\ IF pa = NoAdapter THEN NoOverride("pii_redactor")
        ELSE pii_redactor = [present |-> TRUE, adapter |-> pa]

\* C39: after update_config returns, the routing_config in memory, the
\* routing file and the adapters of the three roles describe one and the
\* same configuration, whether the call succeeded or failed.
C39_UpdateConfigAllOrNothing ==
  rc.op = "update_config" =>
    /\ rc.routing_config = rc.file
    /\ RolesDescribe(rc.routing_config)

====
